---- MODULE Spec2Model ----
(***************************************************************************)
(* A model of BufferLayer's buffer latch and sync-point handling           *)
(* (services/surfaceflinger/BufferLayer.cpp).                              *)
(*                                                                         *)
(* The composition (main) thread runs latchBuffer, onPreComposition,       *)
(* onPostComposition, notifyAvailableFrames and latchAndReleaseBuffer.     *)
(* Producer threads queue frames, signal fences and toggle auto-refresh    *)
(* and the sideband stream.  Transaction threads register sync points and  *)
(* mark their transactions applied.  latchBuffer takes                     *)
(* mLocalSyncPointMutex twice (the scan of allTransactionsSignaled and     *)
(* the prune at its end), so it is two steps and transaction threads may   *)
(* run between them.                                                       *)
(*                                                                         *)
(* BufferLayer is abstract: the producer side (the queue, the fences,      *)
(* updateTexImage, updateActiveBuffer, updateFrameNumber,                  *)
(* latchSidebandStream) and Layer::addSyncPoint live in files that are not *)
(* part of the sources at hand; they are modelled from the design          *)
(* document and marked so where they are defined.                          *)
(***************************************************************************)
EXTENDS Integers, Sequences, FiniteSets

\* ------------------------------------------------------------------ bounds

\* Highest frame number the producer queues or a sync point targets.
MaxFrame == 2
\* Most frames waiting in the producer queue.
MaxQueue == 1
\* Most sync points in the ledger at once.
MaxPoints == 2

VARIABLES
    frames,                   \* what the producer draws: frame number -> geometry
    eLayerOpaque,             \* s.flags & layer_state_t::eLayerOpaque
    mQueueItems,              \* producer queue: <<[frameNumber, fenceSignaled, geometry]>>
    mLastFrameNumberReceived, \* frame number of the last queued frame
    mAutoRefresh,             \* getAutoRefresh()
    connected,                \* the producer is connected to the layer
    mSidebandStreamChanged,   \* getSidebandStreamChanged()
    latchUnsignaled,          \* value latchUnsignaledBuffers() loaded once
    mCurrentFrameNumber,
    mBufferInfo,              \* [mBuffer (0 = nullptr), mFrameLatencyNeeded] and the
                              \* geometry of the buffer
    mSidebandStream,          \* 0 = nullptr
    clone,                    \* a clone of the layer: [mBufferInfo, mSidebandStream,
                              \* mCurrentFrameNumber]
    mRefreshPending,
    mLocalSyncPoints,         \* <<[frameNumber, frameAvailable, transactionApplied]>>
    pc,                       \* main thread: "idle", or inside a latch: "prune", "pruneRelease"
    mLocalSyncPointMutex,     \* who holds it: "none", "main", "transaction"
    local,                    \* locals of the main thread's call (stepwise specification)
    registering,              \* frame number a transaction thread is registering a
                              \* sync point for, 0 if none (stepwise specification)
    result,                   \* what the latchBuffer call of the last step returned
    recomputeVisibleRegions,  \* and what it left in its out-parameter
    flagged,                  \* ledger positions whose requester the last step flagged
                              \* with eTransactionNeeded
    lastLatched,              \* mCurrentFrameNumber at the last return of true, -1 if none
    released,                 \* how many sync points the disconnect handed back
    drawing,                  \* the drawing state s and what the layer is composed
                              \* into: bounds, active size, scaling override, displays
    mNeedsFiltering,
    layerSettings,            \* what prepareClientComposition returned last
    sinceAcquire,             \* since the last buffer acquisition: "pending" (nothing yet),
                              \* "completed" (onPreComposition ran), "released"
                              \* (only latchAndReleaseBuffer ran)
    presented                 \* what the onPostComposition call of the last step returned

vars == <<frames, eLayerOpaque, mQueueItems, mLastFrameNumberReceived, mAutoRefresh,
          connected, mSidebandStreamChanged, latchUnsignaled, mCurrentFrameNumber,
          mBufferInfo, mSidebandStream, clone, mRefreshPending, mLocalSyncPoints, pc,
          mLocalSyncPointMutex, local, registering,
          result, recomputeVisibleRegions, flagged, lastLatched, released, sinceAcquire,
          drawing, mNeedsFiltering, layerSettings, presented>>

producerVars == <<mQueueItems, mLastFrameNumberReceived, mAutoRefresh, connected>>
bufferVars == <<mCurrentFrameNumber, mBufferInfo, mSidebandStream>>
\* What is fixed when the layer is set up.
configVars == <<frames, eLayerOpaque, latchUnsignaled, drawing>>
\* What the composition of the layer sets.
compositionVars == <<mNeedsFiltering, layerSettings>>
\* What other objects hold: the requesters of sync points, the clone layer.
otherVars == <<released, clone>>
\* The lock of the ledger and what the threads hold while they take it.  The
\* operations of Spec and SpecGeometry run each locked section in one step
\* and leave these alone.
lockVars == <<mLocalSyncPointMutex, local, registering>>
ghostVars == <<lastLatched, sinceAcquire>>

\* A step that is no return of latchBuffer and flags no requester: what the
\* last call of the main thread left is gone, what a call in progress holds
\* stays.
noReturn ==
    IF pc = "idle"
    THEN result' = "none" /\ recomputeVisibleRegions' = FALSE /\ flagged' = {}
         /\ presented' = "none"
    ELSE UNCHANGED <<result, recomputeVisibleRegions, flagged, presented>>

\* result is "none" when the last step was no return of latchBuffer, else the
\* value returned: "true", "false", or "falseWake" for false with
\* mFlinger->signalLayerUpdate() called.  (A call that repeats the previous
\* call's result and changes nothing is a stuttering step; the same call is
\* also taken from the state notifyAvailableFrames(FALSE) leads to, where
\* result is "none".)

\* ---------------------------------------------------------------- geometry

\* Rectangles, as ui::Rect: isValid() and isEmpty() of Rect.h are not in the
\* sources at hand; width and height are right - left and bottom - top.
Rect(left, top, right, bottom) ==
    [left |-> left, top |-> top, right |-> right, bottom |-> bottom]
getWidth(rect) == rect.right - rect.left
getHeight(rect) == rect.bottom - rect.top

HAL_PIXEL_FORMAT_RGBA_8888 == 1
HAL_PIXEL_FORMAT_BGRA_8888 == 5
HAL_PIXEL_FORMAT_RGBA_FP16 == 22
HAL_PIXEL_FORMAT_RGBA_1010102 == 43

\* What a frame brings for gatherBufferInfo to copy, and the size of its
\* buffer.  A frame of the base geometry: RGBA_8888, 2 x 2, cropped to all
\* of it, not transformed.
BaseGeometry ==
    [mCrop |-> Rect(0, 0, 2, 2), mTransform |-> {}, mScaleMode |-> "FREEZE",
     mTransformToDisplayInverse |-> FALSE, mPixelFormat |-> HAL_PIXEL_FORMAT_RGBA_8888,
     width |-> 2, height |-> 2]

\* The base geometry and those one field away from it (2 is RGBX_8888, a
\* format without alpha).
Geometries ==
    {BaseGeometry,
     [BaseGeometry EXCEPT !.mCrop = Rect(0, 0, 1, 2)],
     [BaseGeometry EXCEPT !.mTransform = {"ROT_90"}],
     [BaseGeometry EXCEPT !.mScaleMode = "SCALE_TO_WINDOW"],
     [BaseGeometry EXCEPT !.mTransformToDisplayInverse = TRUE],
     [BaseGeometry EXCEPT !.mPixelFormat = 2],
     [BaseGeometry EXCEPT !.width = 3],
     [BaseGeometry EXCEPT !.height = 3]}

\* BufferInfo as constructed: no buffer, an empty crop, nothing set.
NoBufferInfo ==
    [mBuffer |-> 0, mFrameLatencyNeeded |-> FALSE,
     mCrop |-> Rect(0, 0, 0, 0), mTransform |-> {}, mScaleMode |-> "FREEZE",
     mTransformToDisplayInverse |-> FALSE, mPixelFormat |-> 0, width |-> 0, height |-> 0]

\* The geometry held in a BufferInfo.
geometryOf(info) ==
    [mCrop |-> info.mCrop, mTransform |-> info.mTransform, mScaleMode |-> info.mScaleMode,
     mTransformToDisplayInverse |-> info.mTransformToDisplayInverse,
     mPixelFormat |-> info.mPixelFormat, width |-> info.width, height |-> info.height]

HARDWARE_IS_DEVICE_FORMAT(f) == f >= 256 /\ f <= 511

getOpacityForFormat(format) ==
    IF HARDWARE_IS_DEVICE_FORMAT(format) THEN TRUE
    ELSE IF format \in {HAL_PIXEL_FORMAT_RGBA_8888, HAL_PIXEL_FORMAT_BGRA_8888,
                        HAL_PIXEL_FORMAT_RGBA_FP16, HAL_PIXEL_FORMAT_RGBA_1010102}
         THEN FALSE
    ELSE TRUE

\* Variant: the opaque flag and the format decide, buffer or not.
isOpaque_noBufferTest(opaque, sidebandStream, info) ==
    opaque \/ getOpacityForFormat(info.mPixelFormat)

\* isOpaque(s) of a layer with this sideband stream and buffer info.
isOpaque(opaque, sidebandStream, info) ==
    IF sidebandStream = 0 /\ info.mBuffer = 0 THEN FALSE
    ELSE opaque \/ getOpacityForFormat(info.mPixelFormat)

\* The alpha of the layer in halves (0.0, 0.5, 1.0) and below zero.
Alphas == {-1, 0, 1, 2}

\* isVisible() of a layer with this sideband stream and buffer info, for
\* what isHiddenByPolicy() and getAlpha() return (alpha in halves).
isVisible(hiddenByPolicy, alpha, sidebandStream, info) ==
    ~hiddenByPolicy /\ alpha > 0 /\ (info.mBuffer # 0 \/ sidebandStream # 0)

\* Variant: only the crop is compared.
geometryChanged_cropOnly(oldBufferInfo, oldOpacity, info, opacity) ==
    \/ oldBufferInfo.mBuffer = 0
    \/ info.mCrop # oldBufferInfo.mCrop

\* What latchBuffer leaves in recomputeVisibleRegions once the new buffer
\* info is gathered, from the state it captured before.
geometryChanged(oldBufferInfo, oldOpacity, info, opacity) ==
    \/ oldBufferInfo.mBuffer = 0
    \/ info.mCrop # oldBufferInfo.mCrop
    \/ info.mTransform # oldBufferInfo.mTransform
    \/ info.mScaleMode # oldBufferInfo.mScaleMode
    \/ info.mTransformToDisplayInverse # oldBufferInfo.mTransformToDisplayInverse
    \/ /\ oldBufferInfo.mBuffer # 0
       /\ info.width # oldBufferInfo.width \/ info.height # oldBufferInfo.height
    \/ oldOpacity # opacity

\* isValid() and isEmpty() of a rectangle.
isValid(rect) == getWidth(rect) >= 0 /\ getHeight(rect) >= 0
isEmpty(rect) == getWidth(rect) <= 0 \/ getHeight(rect) <= 0
INVALID_RECT == Rect(0, 0, -1, -1)

\* The drawing state of a 2 x 2 layer composed one to one into a display:
\* its bounds, its active size, no sideband stream, no scaling override, the
\* primary display not rotated, and the source crop and display frame of its
\* output layer on display 1 (display 2 has no output layer for it).
BaseDrawing ==
    [win |-> Rect(0, 0, 2, 2), activeWidth |-> 2, activeHeight |-> 2,
     sidebandStream |-> 0, mOverrideScalingMode |-> "none",
     primaryDisplayOrientation |-> {},
     sourceCrop |-> Rect(0, 0, 2, 2), displayFrame |-> Rect(0, 0, 2, 2)]

\* The base drawing state and those one change away from it: bounds that are
\* offset and larger, an active size of no width (alone and with the layer
\* scaling its buffers), a scaling override, a rotated primary display, and a
\* display frame wider than the source crop.
DrawingStates ==
    {BaseDrawing,
     [BaseDrawing EXCEPT !.win = Rect(1, 0, 5, 4)],
     [BaseDrawing EXCEPT !.activeWidth = 0],
     [BaseDrawing EXCEPT !.activeWidth = 0, !.mOverrideScalingMode = "SCALE_TO_WINDOW"],
     [BaseDrawing EXCEPT !.mOverrideScalingMode = "SCALE_TO_WINDOW"],
     [BaseDrawing EXCEPT !.primaryDisplayOrientation = {"ROT_90"}],
     [BaseDrawing EXCEPT !.displayFrame = Rect(0, 0, 4, 2)]}

RECURSIVE GCD(_, _)
GCD(a, b) == IF b = 0 THEN a ELSE GCD(b, a % b)
Abs(x) == IF x < 0 THEN 0 - x ELSE x

\* The float n / d of two small integers: the fraction in lowest terms, and
\* with d = 0 what IEEE 754 division gives: den = 0 with num = 1 or -1 for
\* plus and minus infinity and num = 0 for NaN.
Quotient(n, d) ==
    IF d = 0
    THEN [num |-> IF n > 0 THEN 1 ELSE IF n < 0 THEN 0 - 1 ELSE 0, den |-> 0]
    ELSE LET g == GCD(Abs(n), Abs(d))
             sign == IF d < 0 THEN 0 - 1 ELSE 1
         IN [num |-> sign * (n \div g), den |-> sign * (d \div g)]

\* No layer settings: std::nullopt.
NoLayerSettings ==
    [present |-> FALSE, buffer |-> 0, useTextureFiltering |-> FALSE,
     scaleWidth |-> Quotient(0, 1), scaleHeight |-> Quotient(0, 1),
     translateX |-> Quotient(0, 1), translateY |-> Quotient(0, 1)]

\* The locals of notifyAvailableFrames and allTransactionsSignaled and the
\* iterator of the loops (point, a position in the ledger), outside a call.
\* locked tells whether mLocalSyncPointMutex was held when the head frame
\* number and the fence were read.
NoLocals ==
    [headFrameNumber |-> 0, headFenceSignaled |-> FALSE, presentTimeIsCurrent |-> FALSE,
     locked |-> FALSE, point |-> 0, matchingFramesFound |-> FALSE,
     allTransactionsApplied |-> TRUE]

\* ---------------------------------------------------------- pure helpers

hasFrameUpdate == Len(mQueueItems) > 0

\* Variant: every call goes on past the test for a ready frame.
hasReadyFrame_always == TRUE

hasReadyFrame == hasFrameUpdate \/ mSidebandStreamChanged \/ mAutoRefresh

\* getFrameNumber(expectedPresentTime): the frame at the head of the queue.
getFrameNumber == mQueueItems[1].frameNumber

\* Variant: the head frame number is always the last latched one.
getHeadFrameNumber_stale == mCurrentFrameNumber

getHeadFrameNumber == IF hasFrameUpdate THEN getFrameNumber ELSE mCurrentFrameNumber

latchUnsignaledBuffers == latchUnsignaled

\* The non-blocking poll of the head frame's acquire fence.
fenceHasSignaled ==
    IF latchUnsignaledBuffers THEN TRUE
    ELSE IF ~hasFrameUpdate THEN TRUE
    ELSE mQueueItems[1].fenceSignaled

\* The loop of allTransactionsSignaled from entry i on.
RECURSIVE scanSyncPoints(_, _, _, _, _)
scanSyncPoints(points, head, i, matchingFramesFound, allTransactionsApplied) ==
    IF i > Len(points) \/ points[i].frameNumber > head
    THEN [points |-> points, ret |-> ~matchingFramesFound \/ allTransactionsApplied]
    ELSE IF ~points[i].frameAvailable
         THEN [points |-> [points EXCEPT ![i].frameAvailable = TRUE], ret |-> FALSE]
         ELSE scanSyncPoints(points, head, i + 1, TRUE,
                             allTransactionsApplied /\ points[i].transactionApplied)

\* Variant: the scan marks the entry behind the first unavailable one too.
allTransactionsSignaled_markNext(points, head) ==
    LET r == scanSyncPoints(points, head, 1, FALSE, TRUE)
    IN [points |-> [i \in 1..Len(points) |->
                       IF i > 1 /\ r.points[i - 1] # points[i - 1]
                       THEN [points[i] EXCEPT !.frameAvailable = TRUE]
                       ELSE r.points[i]],
        ret |-> r.ret]

\* Variant: the scan forgets transactionIsApplied().
allTransactionsSignaled_noApplied(points, head) ==
    LET r == scanSyncPoints(points, head, 1, FALSE, TRUE)
    IN [points |-> r.points, ret |-> r.ret \/ r.points = points]

\* Variant: the scan marks every unavailable entry up to head, not the first.
allTransactionsSignaled_noBreak(points, head) ==
    LET r == scanSyncPoints(points, head, 1, FALSE, TRUE)
    IN [points |-> [i \in 1..Len(points) |->
                       IF points[i].frameNumber <= head
                       THEN [points[i] EXCEPT !.frameAvailable = TRUE]
                       ELSE points[i]],
        ret |-> r.ret]

\* Variant: the scan stops one frame early (>= in place of >).
allTransactionsSignaled_offByOne(points, head) ==
    scanSyncPoints(points, head - 1, 1, FALSE, TRUE)

\* allTransactionsSignaled: the ledger after the scan and the value returned.
allTransactionsSignaled(points, head) == scanSyncPoints(points, head, 1, FALSE, TRUE)

\* Variant: the prune keeps the sync points of the frame just latched.
dropSyncPoints_belowOnly(points, frameNumber) ==
    SelectSeq(points, LAMBDA p : ~p.frameAvailable \/ ~p.transactionApplied
                                 \/ p.frameNumber >= frameNumber)

\* Variant: the prune drops by frame number alone.
dropSyncPoints_ignoreFlags(points, frameNumber) ==
    SelectSeq(points, LAMBDA p : p.frameNumber > frameNumber)

\* The sync point loop at the end of latchBuffer.
dropSyncPoints(points, frameNumber) ==
    SelectSeq(points, LAMBDA p : ~p.frameAvailable \/ ~p.transactionApplied
                                 \/ p.frameNumber > frameNumber)

\* Position at which a sync point for frame n goes into an ascending ledger.
insertIndex(points, n) ==
    Cardinality({i \in 1..Len(points) : points[i].frameNumber <= n}) + 1

\* Variant: the sync point goes to the back of the ledger.
insertSyncPoint_append(points, n) ==
    Append(points, [frameNumber |-> n, frameAvailable |-> FALSE,
                    transactionApplied |-> FALSE])

insertSyncPoint(points, n) ==
    LET k == insertIndex(points, n)
        p == [frameNumber |-> n, frameAvailable |-> FALSE, transactionApplied |-> FALSE]
    IN SubSeq(points, 1, k - 1) \o <<p>> \o SubSeq(points, k, Len(points))

\* ------------------------------------------------------------------ Init

\* The layer as constructed, with a clone of it.
Constructed ==
    /\ mLocalSyncPointMutex = "none"
    /\ local = NoLocals
    /\ registering = 0
    /\ mSidebandStream = 0
    /\ clone = [mBufferInfo |-> NoBufferInfo, mSidebandStream |-> 0,
                mCurrentFrameNumber |-> 0]
    /\ recomputeVisibleRegions = FALSE
    /\ mQueueItems = <<>>
    /\ mLastFrameNumberReceived = 0
    /\ mAutoRefresh = FALSE
    /\ connected = TRUE
    /\ mSidebandStreamChanged = FALSE
    /\ mCurrentFrameNumber = 0
    /\ mBufferInfo = NoBufferInfo
    /\ mRefreshPending = FALSE
    /\ mLocalSyncPoints = <<>>
    /\ pc = "idle"
    /\ result = "none"
    /\ flagged = {}
    /\ lastLatched = -1
    /\ released = 0
    /\ sinceAcquire = "completed"
    /\ mNeedsFiltering = FALSE
    /\ layerSettings = NoLayerSettings
    /\ presented = "none"

\* A translucent layer whose producer draws every frame alike.
Init ==
    /\ frames = [n \in 1..MaxFrame |-> BaseGeometry]
    /\ eLayerOpaque = FALSE
    /\ latchUnsignaled \in BOOLEAN
    /\ drawing = BaseDrawing
    /\ Constructed

\* ------------------------------------------------- producer (client threads)

\* The producer queues the next frame.
onFrameAvailable(signaled) ==
    /\ connected
    /\ Len(mQueueItems) < MaxQueue
    /\ mLastFrameNumberReceived < MaxFrame
    /\ mQueueItems' = Append(mQueueItems,
                             [frameNumber |-> mLastFrameNumberReceived + 1,
                              fenceSignaled |-> signaled,
                              geometry |-> frames[mLastFrameNumberReceived + 1]])
    /\ mLastFrameNumberReceived' = mLastFrameNumberReceived + 1
    /\ noReturn
    /\ UNCHANGED <<otherVars, mAutoRefresh, connected, mSidebandStreamChanged, configVars, compositionVars, lockVars,
                   bufferVars, mRefreshPending, mLocalSyncPoints, pc, ghostVars>>

\* The acquire fence of a queued frame signals.
signalFence(i) ==
    /\ i \in 1..Len(mQueueItems)
    /\ ~mQueueItems[i].fenceSignaled
    /\ mQueueItems' = [mQueueItems EXCEPT ![i].fenceSignaled = TRUE]
    /\ noReturn
    /\ UNCHANGED <<otherVars, mLastFrameNumberReceived, mAutoRefresh, connected,
                   mSidebandStreamChanged, configVars, compositionVars, lockVars, bufferVars, mRefreshPending,
                   mLocalSyncPoints, pc, ghostVars>>

setAutoRefresh(autoRefresh) ==
    /\ connected
    /\ autoRefresh # mAutoRefresh
    /\ mAutoRefresh' = autoRefresh
    /\ noReturn
    /\ UNCHANGED <<otherVars, mQueueItems, mLastFrameNumberReceived, connected,
                   mSidebandStreamChanged, configVars, compositionVars, lockVars, bufferVars, mRefreshPending,
                   mLocalSyncPoints, pc, ghostVars>>

\* The producer attaches or detaches a sideband stream.
onSidebandStreamChanged ==
    /\ connected
    /\ ~mSidebandStreamChanged
    /\ mSidebandStreamChanged' = TRUE
    /\ noReturn
    /\ UNCHANGED <<otherVars, producerVars, configVars, compositionVars, lockVars, bufferVars, mRefreshPending,
                   mLocalSyncPoints, pc, ghostVars>>

\* Variant: the disconnect prunes as a latch does, only what is satisfied.
forceSatisfyAll_pruneSatisfied(points) ==
    [released |-> [i \in 1..Len(points) |-> [points[i] EXCEPT !.frameAvailable = TRUE]],
     points |-> SelectSeq(points, LAMBDA p : ~p.transactionApplied)]

\* forceSatisfyAll(): every entry is handed back to its requester with
\* frameAvailable set (released), and the ledger keeps none (points).
forceSatisfyAll(points) ==
    [released |-> [i \in 1..Len(points) |-> [points[i] EXCEPT !.frameAvailable = TRUE]],
     points |-> <<>>]

\* The producer disconnects from the layer.  What it had queued stays.
onDisconnect ==
    /\ connected
    /\ connected' = FALSE
    /\ mLocalSyncPoints' = forceSatisfyAll(mLocalSyncPoints).points
    /\ released' = Len(forceSatisfyAll(mLocalSyncPoints).released)
    /\ noReturn
    /\ UNCHANGED <<mQueueItems, mLastFrameNumberReceived, mAutoRefresh,
                   mSidebandStreamChanged, configVars, compositionVars, lockVars, bufferVars, clone,
                   mRefreshPending, pc, ghostVars>>

\* ------------------------------------------------------ transaction threads

\* A dependent layer registers a sync point for frame n; a layer whose
\* producer is gone takes no new sync point.
addSyncPoint(n) ==
    /\ connected
    /\ Len(mLocalSyncPoints) < MaxPoints
    /\ mLocalSyncPoints' = insertSyncPoint(mLocalSyncPoints, n)
    /\ noReturn
    /\ UNCHANGED <<otherVars, producerVars, mSidebandStreamChanged, configVars, compositionVars, lockVars, bufferVars,
                   mRefreshPending, pc, ghostVars>>

\* The dependent layer's transaction commits; it waits for the frame first.
setTransactionApplied(i) ==
    /\ i \in 1..Len(mLocalSyncPoints)
    /\ mLocalSyncPoints[i].frameAvailable
    /\ ~mLocalSyncPoints[i].transactionApplied
    /\ mLocalSyncPoints' = [mLocalSyncPoints EXCEPT ![i].transactionApplied = TRUE]
    /\ noReturn
    /\ UNCHANGED <<otherVars, producerVars, mSidebandStreamChanged, configVars, compositionVars, lockVars, bufferVars,
                   mRefreshPending, pc, ghostVars>>

\* ------------------------------------------------------------- main thread

\* What updateTexImage, updateActiveBuffer and updateFrameNumber report: the
\* error one of them meets, and BAD_VALUE from updateActiveBuffer when
\* nothing is queued and no buffer was ever acquired.
updateStatus(err) ==
    IF err # "NO_ERROR" THEN err
    ELSE IF ~hasFrameUpdate /\ mBufferInfo.mBuffer = 0 THEN "updateActiveBuffer"
    ELSE "NO_ERROR"

\* Variant: no fence poll.
latchPath_noFence(refreshPending, err) ==
    IF mSidebandStreamChanged THEN "sideband"
    ELSE IF ~hasReadyFrame THEN "notReady"
    ELSE IF refreshPending THEN "refreshPending"
    ELSE IF ~allTransactionsSignaled(mLocalSyncPoints, getHeadFrameNumber).ret
         THEN "syncPoint"
    ELSE IF updateStatus(err) # "NO_ERROR" THEN "acquireFail"
    ELSE "latched"

\* Variant: the sideband change does not end the call.
latchPath_noSideband(refreshPending, err) ==
    IF ~hasReadyFrame THEN "notReady"
    ELSE IF refreshPending THEN "refreshPending"
    ELSE IF ~fenceHasSignaled THEN "fence"
    ELSE IF ~allTransactionsSignaled(mLocalSyncPoints, getHeadFrameNumber).ret
         THEN "syncPoint"
    ELSE IF updateStatus(err) # "NO_ERROR" THEN "acquireFail"
    ELSE "latched"

\* Variant: no mRefreshPending check.
latchPath_noRefreshPending(refreshPending, err) ==
    IF mSidebandStreamChanged THEN "sideband"
    ELSE IF ~hasReadyFrame THEN "notReady"
    ELSE IF ~fenceHasSignaled THEN "fence"
    ELSE IF ~allTransactionsSignaled(mLocalSyncPoints, getHeadFrameNumber).ret
         THEN "syncPoint"
    ELSE IF updateStatus(err) # "NO_ERROR" THEN "acquireFail"
    ELSE "latched"

\* The return statement a latchBuffer call reaches, with mRefreshPending as
\* the call finds it and err what the acquisition steps meet.
latchPath(refreshPending, err) ==
    IF mSidebandStreamChanged THEN "sideband"
    ELSE IF ~hasReadyFrame THEN "notReady"
    ELSE IF refreshPending THEN "refreshPending"
    ELSE IF ~fenceHasSignaled THEN "fence"
    ELSE IF ~allTransactionsSignaled(mLocalSyncPoints, getHeadFrameNumber).ret
         THEN "syncPoint"
    ELSE IF updateStatus(err) # "NO_ERROR" THEN "acquireFail"
    ELSE "latched"

\* Whether the call behind path runs the sync point scan.
reachesSyncPoints(path) == path \in {"syncPoint", "acquireFail", "latched"}

\* Variant: the fence path forgets signalLayerUpdate().
returnOf_noWake(path) == IF path = "sideband" THEN "true" ELSE "false"

\* What the call behind path returns (when it returns in the same step).
returnOf(path) ==
    IF path = "sideband" THEN "true" ELSE IF path = "fence" THEN "falseWake" ELSE "false"

\* Variant: mRefreshPending is set before the acquisition, not after it.
refreshPendingAfter_early(path, refreshPending) ==
    IF path \in {"latched", "acquireFail"} THEN TRUE ELSE refreshPending

\* mRefreshPending and mFrameLatencyNeeded as the call behind path leaves them.
refreshPendingAfter(path, refreshPending) ==
    IF path = "latched" THEN TRUE ELSE refreshPending

frameLatencyNeededAfter(path) ==
    IF path = "latched" THEN TRUE ELSE mBufferInfo.mFrameLatencyNeeded

\* updateTexImage, updateActiveBuffer and updateFrameNumber once all three
\* succeed: the head frame leaves the queue and becomes the current one.
acquiredFrameNumber == getHeadFrameNumber

\* gatherBufferInfo: the geometry of the frame just acquired, the one the
\* consumer holds; with nothing queued that is the frame latched before.
gatherBufferInfo ==
    IF hasFrameUpdate THEN mQueueItems[1].geometry ELSE geometryOf(mBufferInfo)

\* mBufferInfo once updateActiveBuffer, gatherBufferInfo and line 404 have run.
latchedBufferInfo ==
    [mBuffer |-> acquiredFrameNumber, mFrameLatencyNeeded |-> TRUE,
     mCrop |-> gatherBufferInfo.mCrop, mTransform |-> gatherBufferInfo.mTransform,
     mScaleMode |-> gatherBufferInfo.mScaleMode,
     mTransformToDisplayInverse |-> gatherBufferInfo.mTransformToDisplayInverse,
     mPixelFormat |-> gatherBufferInfo.mPixelFormat,
     width |-> gatherBufferInfo.width, height |-> gatherBufferInfo.height]

\* A latchBuffer call up to the point where it takes the sync point lock
\* again; release tells a call made by latchAndReleaseBuffer, which drops
\* what the call leaves in recomputeVisibleRegions.
\* latchSidebandStream consumes a pending sideband change, takes the stream
\* the consumer holds and reports the change as the refresh required, asking
\* for the visible regions anew; the acquisition, once it succeeds, takes the
\* head frame off the queue and installs it with gatherBufferInfo.
latchBufferCall(refreshPending, err, release, stream) ==
    LET path == latchPath(refreshPending, err)
        scan == allTransactionsSignaled(mLocalSyncPoints, getHeadFrameNumber)
        oldOpacity == isOpaque(eLayerOpaque, mSidebandStream, mBufferInfo)
        oldBufferInfo == mBufferInfo
    IN /\ mSidebandStreamChanged' = FALSE
       /\ mSidebandStream' = IF path = "sideband" THEN stream ELSE mSidebandStream
       /\ recomputeVisibleRegions' =
              IF release THEN FALSE
              ELSE IF path = "sideband" THEN TRUE
              ELSE IF path = "latched"
                   THEN geometryChanged(oldBufferInfo, oldOpacity, latchedBufferInfo,
                                        isOpaque(eLayerOpaque, mSidebandStream,
                                                 latchedBufferInfo))
              ELSE FALSE
       /\ flagged' = {}
       /\ presented' = "none"
       /\ mLocalSyncPoints' =
              IF reachesSyncPoints(path) THEN scan.points ELSE mLocalSyncPoints
       /\ mRefreshPending' = refreshPendingAfter(path, refreshPending)
       /\ IF path = "latched"
          THEN /\ mQueueItems' = IF hasFrameUpdate THEN Tail(mQueueItems) ELSE mQueueItems
               /\ mCurrentFrameNumber' = acquiredFrameNumber
               /\ mBufferInfo' = [latchedBufferInfo EXCEPT
                                     !.mFrameLatencyNeeded = frameLatencyNeededAfter(path)]
               /\ pc' = IF release THEN "pruneRelease" ELSE "prune"
               /\ result' = "none"
               /\ sinceAcquire' = "pending"
               /\ UNCHANGED lastLatched
          ELSE /\ mBufferInfo' = [mBufferInfo EXCEPT
                                     !.mFrameLatencyNeeded = frameLatencyNeededAfter(path)]
               /\ pc' = "idle"
               /\ result' = IF release THEN "none" ELSE returnOf(path)
               /\ lastLatched' = IF path = "sideband" THEN mCurrentFrameNumber
                                 ELSE lastLatched
               /\ sinceAcquire' = IF release /\ sinceAcquire = "pending" THEN "released"
                                  ELSE sinceAcquire
               /\ UNCHANGED <<mQueueItems, mCurrentFrameNumber>>
       /\ UNCHANGED <<mLastFrameNumberReceived, mAutoRefresh, connected, configVars, compositionVars, lockVars,
                      otherVars>>

latchBuffer(err, stream) ==
    /\ pc = "idle"
    /\ latchBufferCall(mRefreshPending, err, FALSE, stream)

\* The end of a latchBuffer call that installed a buffer: drop the sync
\* points of the frame just latched and return true.
latchBufferPrune ==
    /\ pc \in {"prune", "pruneRelease"}
    /\ mLocalSyncPoints' = dropSyncPoints(mLocalSyncPoints, mCurrentFrameNumber)
    /\ pc' = "idle"
    /\ result' = IF pc = "prune" THEN "true" ELSE "none"
    /\ flagged' = {}
    /\ presented' = "none"
    /\ UNCHANGED recomputeVisibleRegions
    /\ lastLatched' = mCurrentFrameNumber
    /\ UNCHANGED <<otherVars, producerVars, mSidebandStreamChanged, configVars, compositionVars, lockVars, bufferVars,
                   mRefreshPending, sinceAcquire>>

\* Variant: the refresh leaves mRefreshPending as it finds it.
onPreComposition_keepsPending ==
    /\ pc = "idle"
    /\ sinceAcquire' = "completed"
    /\ noReturn
    /\ UNCHANGED <<otherVars, producerVars, mSidebandStreamChanged, configVars, compositionVars, lockVars, bufferVars,
                    mRefreshPending, mLocalSyncPoints, pc, lastLatched>>

onPreComposition ==
    /\ pc = "idle"
    /\ mRefreshPending' = FALSE
    /\ sinceAcquire' = "completed"
    /\ noReturn
    /\ UNCHANGED <<otherVars, producerVars, mSidebandStreamChanged, configVars, compositionVars, lockVars, bufferVars,
                   mLocalSyncPoints, pc, lastLatched>>

\* Variant: the call reports a frame whether or not one was latched.
onPostCompositionCall_always(info) ==
    [ret |-> TRUE, info |-> [info EXCEPT !.mFrameLatencyNeeded = FALSE]]

\* What an onPostComposition call returns and the mBufferInfo it leaves (the
\* frame event history and the frame tracker are not modelled).
onPostCompositionCall(info) ==
    IF ~info.mFrameLatencyNeeded
    THEN [ret |-> FALSE, info |-> info]
    ELSE [ret |-> TRUE, info |-> [info EXCEPT !.mFrameLatencyNeeded = FALSE]]

onPostComposition ==
    /\ pc = "idle"
    /\ mBufferInfo' = onPostCompositionCall(mBufferInfo).info
    /\ presented' = IF onPostCompositionCall(mBufferInfo).ret THEN "true" ELSE "false"
    /\ result' = "none"
    /\ recomputeVisibleRegions' = FALSE
    /\ flagged' = {}
    /\ UNCHANGED <<otherVars, producerVars, mSidebandStreamChanged, configVars, compositionVars, lockVars,
                   mCurrentFrameNumber, mSidebandStream, mRefreshPending,
                   mLocalSyncPoints, pc, ghostVars>>

\* The ledger after notifyAvailableFrames.
notifyFrames(points, headFrameNumber, headFenceSignaled, presentTimeIsCurrent) ==
    [i \in 1..Len(points) |->
        IF headFrameNumber >= points[i].frameNumber /\ headFenceSignaled
           /\ presentTimeIsCurrent
        THEN [points[i] EXCEPT !.frameAvailable = TRUE]
        ELSE points[i]]

\* Variant: the requester is flagged without looking whether it is still there.
flaggedRequesters_unchecked(points, headFrameNumber, headFenceSignaled, presentTimeIsCurrent, resolves) ==
    {i \in 1..Len(points) :
        headFrameNumber >= points[i].frameNumber /\ headFenceSignaled
        /\ presentTimeIsCurrent}

\* The entries whose requester notifyAvailableFrames flags with
\* eTransactionNeeded; resolves holds the positions of the entries whose
\* getRequestedSyncLayer() is not null.
flaggedRequesters(points, headFrameNumber, headFenceSignaled, presentTimeIsCurrent, resolves) ==
    {i \in 1..Len(points) :
        headFrameNumber >= points[i].frameNumber /\ headFenceSignaled
        /\ presentTimeIsCurrent /\ i \in resolves}

notifyAvailableFrames(presentTimeIsCurrent, resolves) ==
    /\ pc = "idle"
    /\ mLocalSyncPoints' = notifyFrames(mLocalSyncPoints, getHeadFrameNumber,
                                        fenceHasSignaled, presentTimeIsCurrent)
    /\ flagged' = flaggedRequesters(mLocalSyncPoints, getHeadFrameNumber,
                                    fenceHasSignaled, presentTimeIsCurrent, resolves)
    /\ result' = "none"
    /\ recomputeVisibleRegions' = FALSE
    /\ presented' = "none"
    /\ UNCHANGED <<otherVars, producerVars, mSidebandStreamChanged, configVars, compositionVars, lockVars, bufferVars,
                   mRefreshPending, pc, ghostVars>>

\* latchAndReleaseBuffer: clear mRefreshPending, then latch if a frame is ready.
latchAndReleaseBuffer(err, stream) ==
    /\ pc = "idle"
    /\ IF hasReadyFrame
       THEN latchBufferCall(FALSE, err, TRUE, stream)
       ELSE /\ mRefreshPending' = FALSE
            /\ noReturn
            /\ sinceAcquire' = IF sinceAcquire = "pending" THEN "released" ELSE sinceAcquire
            /\ UNCHANGED <<otherVars, producerVars, mSidebandStreamChanged, configVars, compositionVars, lockVars,
                           bufferVars, mLocalSyncPoints, pc, lastLatched>>

\* Variant: the clone takes the buffer info and keeps its own frame number.
updateCloneBufferInfo_keepFrameNumber(clonedFromAlive) ==
    /\ pc = "idle"
    /\ clone' = IF ~clonedFromAlive THEN clone
                ELSE [mBufferInfo |-> mBufferInfo, mSidebandStream |-> mSidebandStream,
                      mCurrentFrameNumber |-> clone.mCurrentFrameNumber]
    /\ noReturn
    /\ UNCHANGED <<released, producerVars, mSidebandStreamChanged, configVars, compositionVars, lockVars, bufferVars,
                   mRefreshPending, mLocalSyncPoints, pc, ghostVars>>

\* updateCloneBufferInfo, run on the clone (isClone() holds) by the main
\* thread between latches.
updateCloneBufferInfo(clonedFromAlive) ==
    /\ pc = "idle"
    /\ clone' = IF ~clonedFromAlive THEN clone
                ELSE [mBufferInfo |-> mBufferInfo, mSidebandStream |-> mSidebandStream,
                      mCurrentFrameNumber |-> mCurrentFrameNumber]
    /\ noReturn
    /\ UNCHANGED <<released, producerVars, mSidebandStreamChanged, configVars, compositionVars, lockVars, bufferVars,
                   mRefreshPending, mLocalSyncPoints, pc, ghostVars>>

Errors == {"NO_ERROR", "updateTexImage", "updateActiveBuffer", "updateFrameNumber"}

\* The sideband streams the consumer may hold (0 = none): the layers of Spec
\* are given none.
NoStreams == {0}
Streams == {0, 1}

Next ==
    \/ \E signaled \in BOOLEAN : onFrameAvailable(signaled)
    \/ \E i \in 1..MaxQueue : signalFence(i)
    \/ \E autoRefresh \in BOOLEAN : setAutoRefresh(autoRefresh)
    \/ onSidebandStreamChanged
    \/ onDisconnect
    \/ \E n \in 1..MaxFrame : addSyncPoint(n)
    \/ \E i \in 1..MaxPoints : setTransactionApplied(i)
    \/ \E err \in Errors, stream \in NoStreams : latchBuffer(err, stream)
    \/ latchBufferPrune
    \/ onPreComposition
    \/ onPostComposition
    \/ \E presentTimeIsCurrent \in BOOLEAN, resolves \in {{}, 1..MaxPoints} :
           notifyAvailableFrames(presentTimeIsCurrent, resolves)
    \/ \E err \in Errors, stream \in NoStreams : latchAndReleaseBuffer(err, stream)

Spec == Init /\ [][Next]_vars

\* ------------------------------------------- the layer by its geometry alone

\* A layer no other layer waits for, opaque or not, whose producer draws
\* every second frame with another geometry than the base one; the consumer
\* may hold a sideband stream, and the layer has a clone.
InitGeometry ==
    /\ frames \in {[n \in 1..MaxFrame |-> IF n % 2 = 1 THEN BaseGeometry ELSE geometry] :
                       geometry \in Geometries}
    /\ eLayerOpaque \in BOOLEAN
    /\ latchUnsignaled = FALSE
    /\ drawing = BaseDrawing
    /\ Constructed

NextGeometry ==
    \/ \E signaled \in BOOLEAN : onFrameAvailable(signaled)
    \/ \E i \in 1..MaxQueue : signalFence(i)
    \/ \E autoRefresh \in BOOLEAN : setAutoRefresh(autoRefresh)
    \/ onSidebandStreamChanged
    \/ \E err \in Errors, stream \in Streams : latchBuffer(err, stream)
    \/ latchBufferPrune
    \/ onPreComposition
    \/ onPostComposition
    \/ \E clonedFromAlive \in BOOLEAN : updateCloneBufferInfo(clonedFromAlive)

SpecGeometry == InitGeometry /\ [][NextGeometry]_vars

\* --------------------------------------- the locked sections step by step

\* The stepwise specification runs the calls that touch the ledger one
\* statement at a time, with mLocalSyncPointMutex taken and released where
\* the code does, and one iteration of a loop over the ledger per step.  pc
\* is then "scanLock", "notifyLock" or "pruneLock" (about to take the lock),
\* "scan", "notify" or "pruneLoop" (inside the loop, lock held) or "acquire"
\* (between the scan and the acquisition).

\* latchBuffer from its entry to the first line of allTransactionsSignaled,
\* which reads the head frame number.
latchBufferEnter ==
    /\ pc = "idle"
    /\ LET path == latchPath(mRefreshPending, "NO_ERROR")
       IN /\ IF reachesSyncPoints(path)
             THEN /\ pc' = "scanLock"
                  /\ local' = [NoLocals EXCEPT
                                   !.headFrameNumber = getHeadFrameNumber,
                                   !.locked = (mLocalSyncPointMutex = "main")]
                  /\ result' = "none"
             ELSE /\ pc' = "idle"
                  /\ local' = NoLocals
                  /\ result' = returnOf(path)
          /\ recomputeVisibleRegions' = (path = "sideband")
    /\ mSidebandStreamChanged' = FALSE
    /\ flagged' = {}
    /\ UNCHANGED <<presented, configVars, compositionVars, producerVars, bufferVars, otherVars, mRefreshPending,
                   mLocalSyncPoints, mLocalSyncPointMutex, registering, ghostVars>>

\* notifyAvailableFrames up to its lock: the head frame number, the fence
\* and the present time are read.
notifyAvailableFramesEnter(presentTimeIsCurrent) ==
    /\ pc = "idle"
    /\ pc' = "notifyLock"
    /\ local' = [NoLocals EXCEPT !.headFrameNumber = getHeadFrameNumber,
                                 !.headFenceSignaled = fenceHasSignaled,
                                 !.presentTimeIsCurrent = presentTimeIsCurrent,
                                 !.locked = (mLocalSyncPointMutex = "main")]
    /\ result' = "none"
    /\ recomputeVisibleRegions' = FALSE
    /\ flagged' = {}
    /\ UNCHANGED <<presented, configVars, compositionVars, producerVars, mSidebandStreamChanged, bufferVars,
                   otherVars, mRefreshPending, mLocalSyncPoints, mLocalSyncPointMutex,
                   registering, ghostVars>>

\* Variant: the main thread goes on without waiting for the lock.
lockMain_noWait ==
    /\ pc \in {"scanLock", "notifyLock", "pruneLock"}
    /\ mLocalSyncPointMutex' = "main"
    /\ pc' = IF pc = "scanLock" THEN "scan"
             ELSE IF pc = "notifyLock" THEN "notify" ELSE "pruneLoop"
    /\ local' = [local EXCEPT !.point = 1]
    /\ UNCHANGED <<presented, configVars, compositionVars, producerVars, mSidebandStreamChanged, bufferVars,
                   otherVars, mRefreshPending, mLocalSyncPoints, registering, result,
                   recomputeVisibleRegions, flagged, ghostVars>>

\* Mutex::Autolock lock(mLocalSyncPointMutex) on the main thread, and the
\* loop that follows it starts at mLocalSyncPoints.begin().
lockMain ==
    /\ pc \in {"scanLock", "notifyLock", "pruneLock"}
    /\ mLocalSyncPointMutex = "none"
    /\ mLocalSyncPointMutex' = "main"
    /\ pc' = IF pc = "scanLock" THEN "scan"
             ELSE IF pc = "notifyLock" THEN "notify" ELSE "pruneLoop"
    /\ local' = [local EXCEPT !.point = 1]
    /\ UNCHANGED <<presented, configVars, compositionVars, producerVars, mSidebandStreamChanged, bufferVars,
                   otherVars, mRefreshPending, mLocalSyncPoints, registering, result,
                   recomputeVisibleRegions, flagged, ghostVars>>

\* One iteration of the loop of allTransactionsSignaled, or its end: the
\* lock is released and latchBuffer returns false or goes on.
allTransactionsSignaledStep ==
    /\ pc = "scan"
    /\ LET i == local.point
           atEnd == IF i > Len(mLocalSyncPoints) THEN TRUE
                    ELSE mLocalSyncPoints[i].frameNumber > local.headFrameNumber
           ret == ~local.matchingFramesFound \/ local.allTransactionsApplied
       IN IF atEnd
          THEN /\ mLocalSyncPointMutex' = "none"
               /\ local' = NoLocals
               /\ pc' = IF ret THEN "acquire" ELSE "idle"
               /\ result' = IF ret THEN "none" ELSE "false"
               /\ UNCHANGED mLocalSyncPoints
          ELSE IF ~mLocalSyncPoints[i].frameAvailable
          THEN /\ mLocalSyncPoints' =
                      [mLocalSyncPoints EXCEPT ![i].frameAvailable = TRUE]
               /\ mLocalSyncPointMutex' = "none"
               /\ local' = NoLocals
               /\ pc' = "idle"
               /\ result' = "false"
          ELSE /\ local' = [local EXCEPT
                                !.point = i + 1,
                                !.matchingFramesFound = TRUE,
                                !.allTransactionsApplied =
                                    @ /\ mLocalSyncPoints[i].transactionApplied]
               /\ UNCHANGED <<mLocalSyncPoints, mLocalSyncPointMutex, pc, result>>
    /\ UNCHANGED <<presented, configVars, compositionVars, producerVars, mSidebandStreamChanged, bufferVars,
                   otherVars, mRefreshPending, registering, recomputeVisibleRegions,
                   flagged, ghostVars>>

\* updateTexImage, updateActiveBuffer, updateFrameNumber, gatherBufferInfo
\* and the comparison with the state captured before.
acquireBuffer(err) ==
    /\ pc = "acquire"
    /\ IF updateStatus(err) # "NO_ERROR"
       THEN /\ pc' = "idle"
            /\ result' = "false"
            /\ UNCHANGED <<mQueueItems, mCurrentFrameNumber, mBufferInfo, mRefreshPending,
                           recomputeVisibleRegions, sinceAcquire>>
       ELSE /\ mQueueItems' = IF hasFrameUpdate THEN Tail(mQueueItems) ELSE mQueueItems
            /\ mCurrentFrameNumber' = acquiredFrameNumber
            /\ mBufferInfo' = latchedBufferInfo
            /\ mRefreshPending' = TRUE
            /\ recomputeVisibleRegions' =
                   geometryChanged(mBufferInfo,
                                   isOpaque(eLayerOpaque, mSidebandStream, mBufferInfo),
                                   latchedBufferInfo,
                                   isOpaque(eLayerOpaque, mSidebandStream,
                                            latchedBufferInfo))
            /\ pc' = "pruneLock"
            /\ result' = "none"
            /\ sinceAcquire' = "pending"
    /\ UNCHANGED <<presented, configVars, compositionVars, mLastFrameNumberReceived, mAutoRefresh, connected,
                   mSidebandStreamChanged, mSidebandStream, otherVars, mLocalSyncPoints,
                   lockVars, flagged, lastLatched>>

\* Variant: the loop at the end of latchBuffer drops by frame number alone.
dropSyncPointsStep_ignoreFlags ==
    /\ pc = "pruneLoop"
    /\ LET i == local.point
       IN IF i > Len(mLocalSyncPoints)
          THEN /\ mLocalSyncPointMutex' = "none"
               /\ local' = NoLocals
               /\ pc' = "idle"
               /\ result' = "true"
               /\ lastLatched' = mCurrentFrameNumber
               /\ UNCHANGED mLocalSyncPoints
          ELSE IF mLocalSyncPoints[i].frameNumber <= mCurrentFrameNumber
          THEN /\ mLocalSyncPoints' = SubSeq(mLocalSyncPoints, 1, i - 1)
                                          \o SubSeq(mLocalSyncPoints, i + 1,
                                                    Len(mLocalSyncPoints))
               /\ UNCHANGED <<mLocalSyncPointMutex, local, pc, result, lastLatched>>
          ELSE /\ local' = [local EXCEPT !.point = i + 1]
               /\ UNCHANGED <<mLocalSyncPoints, mLocalSyncPointMutex, pc, result,
                              lastLatched>>
    /\ UNCHANGED <<presented, configVars, compositionVars, producerVars, mSidebandStreamChanged, bufferVars,
                   otherVars, mRefreshPending, registering, recomputeVisibleRegions,
                   flagged, sinceAcquire>>

\* One iteration of the loop at the end of latchBuffer, or its end: the lock
\* is released and latchBuffer returns true.
dropSyncPointsStep ==
    /\ pc = "pruneLoop"
    /\ LET i == local.point
       IN IF i > Len(mLocalSyncPoints)
          THEN /\ mLocalSyncPointMutex' = "none"
               /\ local' = NoLocals
               /\ pc' = "idle"
               /\ result' = "true"
               /\ lastLatched' = mCurrentFrameNumber
               /\ UNCHANGED mLocalSyncPoints
          ELSE IF /\ mLocalSyncPoints[i].frameAvailable
                  /\ mLocalSyncPoints[i].transactionApplied
                  /\ mLocalSyncPoints[i].frameNumber <= mCurrentFrameNumber
          THEN /\ mLocalSyncPoints' = SubSeq(mLocalSyncPoints, 1, i - 1)
                                          \o SubSeq(mLocalSyncPoints, i + 1,
                                                    Len(mLocalSyncPoints))
               /\ UNCHANGED <<mLocalSyncPointMutex, local, pc, result, lastLatched>>
          ELSE /\ local' = [local EXCEPT !.point = i + 1]
               /\ UNCHANGED <<mLocalSyncPoints, mLocalSyncPointMutex, pc, result,
                              lastLatched>>
    /\ UNCHANGED <<presented, configVars, compositionVars, producerVars, mSidebandStreamChanged, bufferVars,
                   otherVars, mRefreshPending, registering, recomputeVisibleRegions,
                   flagged, sinceAcquire>>

\* One iteration of the loop of notifyAvailableFrames, or its end;
\* requestedSyncLayer tells whether the requester of the entry is still there.
notifyAvailableFramesStep(requestedSyncLayer) ==
    /\ pc = "notify"
    /\ LET i == local.point
       IN IF i > Len(mLocalSyncPoints)
          THEN /\ mLocalSyncPointMutex' = "none"
               /\ local' = NoLocals
               /\ pc' = "idle"
               /\ UNCHANGED <<mLocalSyncPoints, flagged>>
          ELSE IF /\ local.headFrameNumber >= mLocalSyncPoints[i].frameNumber
                  /\ local.headFenceSignaled
                  /\ local.presentTimeIsCurrent
          THEN /\ mLocalSyncPoints' =
                      [mLocalSyncPoints EXCEPT ![i].frameAvailable = TRUE]
               /\ flagged' = IF requestedSyncLayer THEN flagged \cup {i} ELSE flagged
               /\ local' = [local EXCEPT !.point = i + 1]
               /\ UNCHANGED <<mLocalSyncPointMutex, pc>>
          ELSE /\ local' = [local EXCEPT !.point = i + 1]
               /\ UNCHANGED <<mLocalSyncPoints, flagged, mLocalSyncPointMutex, pc>>
    /\ UNCHANGED <<presented, configVars, compositionVars, producerVars, mSidebandStreamChanged, bufferVars,
                   otherVars, mRefreshPending, registering, result,
                   recomputeVisibleRegions, ghostVars>>

\* A transaction thread takes the lock to register a sync point for frame n.
addSyncPointLock(n) ==
    /\ connected
    /\ registering = 0
    /\ Len(mLocalSyncPoints) < MaxPoints
    /\ mLocalSyncPointMutex = "none"
    /\ mLocalSyncPointMutex' = "transaction"
    /\ registering' = n
    /\ UNCHANGED <<presented, configVars, compositionVars, producerVars, mSidebandStreamChanged, bufferVars,
                   otherVars, mRefreshPending, mLocalSyncPoints, pc, local, result,
                   recomputeVisibleRegions, flagged, ghostVars>>

\* The transaction thread puts the sync point in and releases the lock.
addSyncPointInsert ==
    /\ registering # 0
    /\ mLocalSyncPoints' = insertSyncPoint(mLocalSyncPoints, registering)
    /\ mLocalSyncPointMutex' = "none"
    /\ registering' = 0
    /\ UNCHANGED <<presented, configVars, compositionVars, producerVars, mSidebandStreamChanged, bufferVars,
                   otherVars, mRefreshPending, pc, local, result,
                   recomputeVisibleRegions, flagged, ghostVars>>

\* A transaction takes the lock, sets the flag of its sync point and
\* releases the lock.
setTransactionAppliedLocked(i) ==
    /\ mLocalSyncPointMutex = "none"
    /\ setTransactionApplied(i)

\* A layer with the override off whose producer draws every frame alike.
InitLock ==
    /\ frames = [n \in 1..MaxFrame |-> BaseGeometry]
    /\ eLayerOpaque = FALSE
    /\ latchUnsignaled = FALSE
    /\ drawing = BaseDrawing
    /\ Constructed

NextLock ==
    \/ \E signaled \in BOOLEAN : onFrameAvailable(signaled)
    \/ \E i \in 1..MaxQueue : signalFence(i)
    \/ \E n \in 1..MaxFrame : addSyncPointLock(n)
    \/ addSyncPointInsert
    \/ \E i \in 1..MaxPoints : setTransactionAppliedLocked(i)
    \/ latchBufferEnter
    \/ \E presentTimeIsCurrent \in BOOLEAN :
           notifyAvailableFramesEnter(presentTimeIsCurrent)
    \/ lockMain
    \/ allTransactionsSignaledStep
    \/ \E err \in Errors : acquireBuffer(err)
    \/ dropSyncPointsStep
    \/ \E requestedSyncLayer \in BOOLEAN : notifyAvailableFramesStep(requestedSyncLayer)
    \/ onPreComposition

SpecLock == InitLock /\ [][NextLock]_vars

\* ------------------------------------------------------------ composition

\* getEffectiveScalingMode() and isFixedSize().
getEffectiveScalingMode(s, info) ==
    IF s.mOverrideScalingMode # "none" THEN s.mOverrideScalingMode ELSE info.mScaleMode

isFixedSize(s, info) == getEffectiveScalingMode(s, info) # "FREEZE"

\* getBufferSize(s): the layer size under a sideband stream or a scaling
\* mode, else the size of the buffer with its rotations undone.
getBufferSize(s, info) ==
    IF s.sidebandStream # 0 \/ getEffectiveScalingMode(s, info) # "FREEZE"
    THEN Rect(0, 0, s.activeWidth, s.activeHeight)
    ELSE IF info.mBuffer = 0 THEN INVALID_RECT
    ELSE LET swapped == ("ROT_90" \in info.mTransform)
                            # (/\ info.mTransformToDisplayInverse
                               /\ "ROT_90" \in s.primaryDisplayOrientation)
         IN IF swapped THEN Rect(0, 0, info.height, info.width)
            ELSE Rect(0, 0, info.width, info.height)

\* Variant: a display without an output layer of this layer is compared too.
needsFiltering_anyDisplay(s, displayDevice) ==
    IF displayDevice = 0 THEN FALSE
    ELSE \/ getHeight(s.sourceCrop) # getHeight(s.displayFrame)
         \/ getWidth(s.sourceCrop) # getWidth(s.displayFrame)

\* needsFiltering(displayDevice): display 0 is nullptr, display 1 has an
\* output layer of this layer, display 2 has none.
needsFiltering(s, displayDevice) ==
    IF displayDevice = 0 THEN FALSE
    ELSE IF displayDevice # 1 THEN FALSE
    ELSE \/ getHeight(s.sourceCrop) # getHeight(s.displayFrame)
         \/ getWidth(s.sourceCrop) # getWidth(s.displayFrame)

\* useFiltering of prepareClientComposition.
useFiltering(s, info, needsFilteringStored, targetNeedsFiltering) ==
    targetNeedsFiltering \/ needsFilteringStored \/ isFixedSize(s, info)

\* What prepareClientComposition returns: nothing when
\* Layer::prepareClientComposition gave nothing or there is no buffer; the
\* settings without a buffer for a blacked-out layer; else the buffer, the
\* filtering flag and the scale and translation that go into the texture
\* transform (the texture matrix it multiplies is left out).
clientComposition(s, info, needsFilteringStored, targetSettings) ==
    IF ~targetSettings.result \/ info.mBuffer = 0 THEN NoLayerSettings
    ELSE IF targetSettings.blackOutLayer
    THEN [NoLayerSettings EXCEPT !.present = TRUE]
    ELSE LET win == s.win
             size == getBufferSize(s, info)
             bufferWidth == IF ~isValid(size) THEN win.right - win.left
                            ELSE getWidth(size)
             bufferHeight == IF ~isValid(size) THEN win.bottom - win.top
                             ELSE getHeight(size)
         IN [present |-> TRUE,
             buffer |-> info.mBuffer,
             useTextureFiltering |->
                 useFiltering(s, info, needsFilteringStored,
                              targetSettings.needsFiltering),
             scaleWidth |-> Quotient(win.right - win.left, bufferWidth),
             scaleHeight |-> Quotient(win.bottom - win.top, bufferHeight),
             translateX |-> Quotient(win.left, bufferWidth),
             translateY |-> Quotient(win.top, bufferHeight)]

\* The target settings of a composition: whether Layer::prepareClientComposition
\* gave a result, whether the target needs filtering, and whether the layer is
\* blacked out for it (protected or secure content the target may not show).
TargetSettings ==
    [result : BOOLEAN, needsFiltering : BOOLEAN, blackOutLayer : BOOLEAN]

prepareClientComposition(targetSettings) ==
    /\ pc = "idle"
    /\ layerSettings' = clientComposition(drawing, mBufferInfo, mNeedsFiltering,
                                          targetSettings)
    /\ noReturn
    /\ UNCHANGED <<configVars, mNeedsFiltering, lockVars, producerVars,
                   mSidebandStreamChanged, bufferVars, otherVars, mRefreshPending,
                   mLocalSyncPoints, pc, ghostVars>>

\* The layer is set up for composition into a display: the flag of
\* needsFiltering is kept in mNeedsFiltering.
setNeedsFiltering(displayDevice) ==
    /\ pc = "idle"
    /\ mNeedsFiltering' = needsFiltering(drawing, displayDevice)
    /\ noReturn
    /\ UNCHANGED <<configVars, layerSettings, lockVars, producerVars,
                   mSidebandStreamChanged, bufferVars, otherVars, mRefreshPending,
                   mLocalSyncPoints, pc, ghostVars>>

Displays == {0, 1, 2}

\* The geometries of the frames of the composition specification: the base
\* geometry, a rotated and a scaled frame, a wider one, and frames with a
\* crop of no area and with an inverted crop.
CompositionGeometries ==
    {BaseGeometry,
     [BaseGeometry EXCEPT !.mTransform = {"ROT_90"}, !.width = 4],
     [BaseGeometry EXCEPT !.mScaleMode = "SCALE_TO_WINDOW"],
     [BaseGeometry EXCEPT !.mTransformToDisplayInverse = TRUE, !.width = 4],
     [BaseGeometry EXCEPT !.mCrop = Rect(0, 0, 0, 2)],
     [BaseGeometry EXCEPT !.mCrop = Rect(2, 0, 0, 2)]}

\* A layer in any of the drawing states whose producer draws the odd frames
\* in the base geometry and the even ones in another.
InitComposition ==
    /\ frames \in {[n \in 1..MaxFrame |-> IF n % 2 = 1 THEN BaseGeometry ELSE geometry] :
                      geometry \in CompositionGeometries}
    /\ eLayerOpaque = FALSE
    /\ latchUnsignaled = FALSE
    /\ drawing \in DrawingStates
    /\ Constructed

NextComposition ==
    \/ onFrameAvailable(TRUE)
    \/ \E stream \in NoStreams : latchBuffer("NO_ERROR", stream)
    \/ latchBufferPrune
    \/ onPreComposition
    \/ \E displayDevice \in Displays : setNeedsFiltering(displayDevice)
    \/ \E targetSettings \in TargetSettings : prepareClientComposition(targetSettings)

SpecComposition == InitComposition /\ [][NextComposition]_vars

\* ------------------------------------------------- the refresh loop at work
\* The layer under a refresh loop that goes on calling latchBuffer and
\* onPreComposition, with a producer whose fences signal, transactions that
\* get applied once their frame is available and an acquisition that does
\* not fail for ever; the producer may go on changing the sideband stream.

InitLive ==
    /\ frames = [n \in 1..MaxFrame |-> BaseGeometry]
    /\ eLayerOpaque = FALSE
    /\ latchUnsignaled = FALSE
    /\ drawing = BaseDrawing
    /\ Constructed

NextLive ==
    \/ \E signaled \in BOOLEAN : onFrameAvailable(signaled)
    \/ \E i \in 1..MaxQueue : signalFence(i)
    \/ onSidebandStreamChanged
    \/ \E n \in 1..MaxFrame : addSyncPoint(n)
    \/ \E i \in 1..MaxPoints : setTransactionApplied(i)
    \/ \E err \in Errors, stream \in NoStreams : latchBuffer(err, stream)
    \/ latchBufferPrune
    \/ onPreComposition

\* Every acquire fence signals and every transaction whose frame is
\* available gets applied; the refresh loop goes on calling onPreComposition
\* and latchBuffer, whose acquisition does not fail for ever, and a call
\* that acquired a buffer runs to its end.
FairnessLive ==
    /\ WF_vars(\E i \in 1..MaxQueue : signalFence(i))
    /\ WF_vars(\E i \in 1..MaxPoints : setTransactionApplied(i))
    /\ WF_vars(onPreComposition)
    /\ WF_vars(\E stream \in NoStreams : latchBuffer("NO_ERROR", stream))
    /\ WF_vars(latchBufferPrune)

SpecLive == InitLive /\ [][NextLive]_vars /\ FairnessLive

\* ----------------------------------------------- latching and presenting
\* The layer and its clone over the cycles of the main thread: frames are
\* queued with their fences signaled, latched by latchBuffer or by
\* latchAndReleaseBuffer, copied to the clone and presented.

NextPresent ==
    \/ onFrameAvailable(TRUE)
    \/ \E autoRefresh \in BOOLEAN : setAutoRefresh(autoRefresh)
    \/ onSidebandStreamChanged
    \/ \E err \in Errors, stream \in NoStreams : latchBuffer(err, stream)
    \/ latchBufferPrune
    \/ \E err \in Errors, stream \in NoStreams : latchAndReleaseBuffer(err, stream)
    \/ onPreComposition
    \/ onPostComposition
    \/ \E clonedFromAlive \in BOOLEAN : updateCloneBufferInfo(clonedFromAlive)

SpecPresent == InitLive /\ [][NextPresent]_vars

\* ================================================================ properties

\* Steps of the main thread, told by what they leave behind.
\* A latchBuffer call made directly (not by latchAndReleaseBuffer) returns.
LatchReturns == result' # "none"
\* A latchBuffer call acquires a buffer (it returns in a later step).
LatchAcquires == pc = "idle" /\ pc' \in {"prune", "pruneRelease"}
\* A direct latchBuffer call runs its first part in this step.
DirectCall == pc = "idle" /\ (result' # "none" \/ pc' = "prune")
\* A latchBuffer call that acquired a buffer returns true.
PruneReturns == pc \in {"prune", "pruneRelease"} /\ pc' = "idle"

\* The producer disconnects.
Disconnects == connected /\ ~connected'

Indices == 1..Len(mLocalSyncPoints)

\* The sync points the scan for the head frame is about.
UpToHead == {i \in Indices : mLocalSyncPoints[i].frameNumber <= getHeadFrameNumber}
Unavailable == {i \in UpToHead : ~mLocalSyncPoints[i].frameAvailable}
Unapplied == {i \in UpToHead : mLocalSyncPoints[i].frameAvailable
                               /\ ~mLocalSyncPoints[i].transactionApplied}

\* The head frame is queued and its acquire fence is pending, override off.
HeadFenceUnsignaled ==
    hasFrameUpdate /\ ~mQueueItems[1].fenceSignaled /\ ~latchUnsignaled

\* A call from this state gets as far as the sync point scan.
ReachesSyncPointCheck ==
    /\ ~mSidebandStreamChanged
    /\ hasFrameUpdate \/ mAutoRefresh
    /\ ~mRefreshPending
    /\ ~HeadFenceUnsignaled

\* A call from this state gets as far as the buffer acquisition.
ReachesAcquisition ==
    ReachesSyncPointCheck /\ Unavailable = {} /\ Unapplied = {}

LatchedStateUnchanged == UNCHANGED <<mCurrentFrameNumber, mBufferInfo>>

\* The latched buffer and its frame number stay (the flags aside).
LatchedBufferUnchanged ==
    /\ mCurrentFrameNumber' = mCurrentFrameNumber
    /\ mBufferInfo'.mBuffer = mBufferInfo.mBuffer

\* ------------------------------------------------------------------- C1

\* C1 as claimed: after every latchBuffer call that returns true the current
\* frame number is strictly greater than after the previous call that
\* returned true.
C1_StrictlyGreaterEveryLatch ==
    [][(result' = "true" /\ lastLatched # -1) => mCurrentFrameNumber' > lastLatched]_vars

\* C1 (amended): the current frame number after a latchBuffer call that
\* returns true is never smaller than after the previous one, and a latch that
\* acquires a newly queued frame makes it strictly greater.
C1_FrameNumberMonotonic ==
    [][/\ (result' = "true" \/ PruneReturns) => mCurrentFrameNumber' >= lastLatched
       /\ (LatchAcquires /\ hasFrameUpdate) =>
              /\ mCurrentFrameNumber' > mCurrentFrameNumber
              /\ mCurrentFrameNumber' > lastLatched]_vars

\* Frame 2 was latched after frame 1 and the call has returned true.
C1_Witness == result = "true" /\ mCurrentFrameNumber = 2 /\ lastLatched = 2

\* ------------------------------------------------------------------- C2

\* C2: a latchBuffer call gets to the buffer acquisition of a queued head
\* frame only if that frame's acquire fence was signaled when the call polled
\* it, unless latchUnsignaledBuffers() is on.
C2_NoLatchOnUnsignaledFence ==
    [][LatchAcquires => ~HeadFenceUnsignaled]_vars

\* A frame was acquired with the override off.
C2_Witness == pc = "prune" /\ ~latchUnsignaled /\ mBufferInfo.mBuffer = 1

\* ------------------------------------------------------------------- C3

\* C3 as claimed: with a sync point up to the head frame that is available
\* but whose transaction is not applied, a latchBuffer call returns false and
\* leaves the latched buffer alone.
C3_BlockedReturnsFalse ==
    [][(DirectCall /\ Unapplied # {}) =>
           /\ result' \in {"false", "falseWake"}
           /\ LatchedStateUnchanged]_vars

\* C3 (amended): with such a sync point in the ledger no latchBuffer call
\* acquires a buffer and the latched buffer state stays as it is; the call
\* returns false unless it leaves through the sideband path, which returns
\* true.  When a latch that acquired a buffer returns, the ledger holds no
\* such sync point up to the frame latched, whatever was registered meanwhile.
C3_BlockedNeverAcquires ==
    [][/\ (pc = "idle" /\ Unapplied # {}) =>
              /\ pc' = "idle"
              /\ LatchedBufferUnchanged
              /\ DirectCall => LatchedStateUnchanged
              /\ result' = "true" => mSidebandStreamChanged
       /\ PruneReturns =>
              \A i \in Indices :
                  mLocalSyncPoints[i].frameNumber <= mCurrentFrameNumber =>
                      ~(mLocalSyncPoints[i].frameAvailable
                        /\ ~mLocalSyncPoints[i].transactionApplied)]_vars

\* A call that got to the scan was turned away by an unapplied transaction.
C3_Witness ==
    /\ result = "false"
    /\ ReachesSyncPointCheck
    /\ Unavailable = {}
    /\ Unapplied # {}

\* ------------------------------------------------------------------- C4

\* C4 as claimed: when a call gets to the scan, every sync point up to the
\* head frame that is not available becomes available, the call returns false
\* and acquires nothing, and the ledger keeps its entries.
C4_EveryUnavailableMarked ==
    [][(DirectCall /\ ReachesSyncPointCheck /\ Unavailable # {}) =>
           /\ result' = "false"
           /\ LatchedStateUnchanged
           /\ Len(mLocalSyncPoints') = Len(mLocalSyncPoints)
           /\ \A i \in Unavailable : mLocalSyncPoints'[i].frameAvailable]_vars

\* The first entry of the ledger up to the head frame that is not available.
FirstUnavailable == CHOOSE i \in Unavailable : \A j \in Unavailable : i <= j

\* C4 (amended): when a call gets to the scan and finds sync points up to the
\* head frame that are not available, it returns false without acquiring a
\* buffer, the first of them (the lowest frame number) becomes available, and
\* every other entry stays in the ledger as it was.
C4_FirstUnavailableMarked ==
    [][(DirectCall /\ ReachesSyncPointCheck /\ Unavailable # {}) =>
           /\ result' = "false"
           /\ pc' = "idle"
           /\ LatchedStateUnchanged
           /\ mLocalSyncPoints' =
                  [mLocalSyncPoints EXCEPT ![FirstUnavailable].frameAvailable = TRUE]]_vars

\* A call has marked the first of two unavailable sync points and left the
\* second one, and its transaction, pending.
C4_Witness ==
    /\ result = "false"
    /\ ReachesSyncPointCheck
    /\ Len(mLocalSyncPoints) = 2
    /\ UpToHead = {1, 2}
    /\ Unavailable = {2}
    /\ ~mLocalSyncPoints[1].transactionApplied

\* ------------------------------------------------------------------- C5

\* C5 as claimed: when a latch that acquired a buffer returns, every sync
\* point in the ledger for an earlier frame is available.
C5_AvailableBeforeAdvance ==
    [][PruneReturns =>
           \A i \in Indices :
               mLocalSyncPoints[i].frameNumber < mCurrentFrameNumber =>
                   mLocalSyncPoints[i].frameAvailable]_vars

\* C5 (amended): a latch acquires a buffer only when every sync point that is
\* in the ledger at its scan, for a frame up to the head frame, is available;
\* a sync point registered after the scan is kept and may still be
\* unavailable when the latch returns.
C5_AvailableAtScan ==
    [][LatchAcquires => Unavailable = {}]_vars

\* A latch has acquired frame 2 past an available sync point for frame 1.
C5_Witness ==
    /\ pc = "prune"
    /\ mCurrentFrameNumber = 2
    /\ \E i \in Indices : /\ mLocalSyncPoints[i].frameNumber = 1
                          /\ mLocalSyncPoints[i].frameAvailable

\* ------------------------------------------------------------------- C6

\* The sequence seq without the entries at the positions in drop.
RECURSIVE Without(_, _, _)
Without(seq, drop, i) ==
    IF i > Len(seq) THEN <<>>
    ELSE (IF i \in drop THEN <<>> ELSE <<seq[i]>>) \o Without(seq, drop, i + 1)

\* The ledger loses exactly the entries at the positions in drop.
Removes(drop) == mLocalSyncPoints' = Without(mLocalSyncPoints, drop, 1)

\* C6: outside of producer disconnect, a step takes sync points out of the
\* ledger only as the end of a latch that acquired a buffer, and then only
\* entries whose frame is available, whose transaction is applied and whose
\* frame number is at most the frame just latched; every other step keeps all
\* entries.
C6_RemovedOnlyWhenSatisfied ==
    [][/\ (Len(mLocalSyncPoints') < Len(mLocalSyncPoints) /\ ~Disconnects) =>
              /\ PruneReturns
              /\ \E drop \in SUBSET Indices :
                     /\ Removes(drop)
                     /\ \A i \in drop :
                            /\ mLocalSyncPoints[i].frameAvailable
                            /\ mLocalSyncPoints[i].transactionApplied
                            /\ mLocalSyncPoints[i].frameNumber <= mCurrentFrameNumber'
       /\ Len(mLocalSyncPoints') = Len(mLocalSyncPoints) =>
              \A i \in Indices :
                  mLocalSyncPoints'[i].frameNumber = mLocalSyncPoints[i].frameNumber
       /\ Len(mLocalSyncPoints') > Len(mLocalSyncPoints) =>
              \E k \in 1..Len(mLocalSyncPoints') :
                  mLocalSyncPoints = Without(mLocalSyncPoints', {k}, 1)]_vars

\* A latch is about to return with a satisfied sync point to drop and an
\* unsatisfied one to keep.
C6_Witness ==
    /\ pc = "prune"
    /\ \E i, j \in Indices :
           /\ mLocalSyncPoints[i].frameAvailable
           /\ mLocalSyncPoints[i].transactionApplied
           /\ mLocalSyncPoints[i].frameNumber <= mCurrentFrameNumber
           /\ ~mLocalSyncPoints[j].frameAvailable
           /\ mLocalSyncPoints[j].frameNumber <= mCurrentFrameNumber

\* ------------------------------------------------------------------- C7

\* C7: the ledger is in ascending order of frame number, so for every head
\* frame number no entry up to it lies behind an entry beyond it, where the
\* scan stops.
C7_LedgerAscending ==
    /\ \A i, j \in Indices :
           i < j => mLocalSyncPoints[i].frameNumber <= mLocalSyncPoints[j].frameNumber
    /\ \A head \in 0..MaxFrame : \A i, j \in Indices :
           (j < i /\ mLocalSyncPoints[i].frameNumber <= head) =>
               mLocalSyncPoints[j].frameNumber <= head

\* A sync point for an earlier frame was registered after one for a later
\* frame: the later one is already available, the earlier one not yet.
C7_Witness ==
    /\ Len(mLocalSyncPoints) = 2
    /\ mLocalSyncPoints[1].frameNumber < mLocalSyncPoints[2].frameNumber
    /\ ~mLocalSyncPoints[1].frameAvailable
    /\ mLocalSyncPoints[2].frameAvailable

\* ------------------------------------------------------------------- C8

C10_UnsignaledAlwaysWakes ==
    [][(DirectCall /\ HeadFenceUnsignaled) =>
           /\ result' = "falseWake"
           /\ LatchedStateUnchanged
           /\ UNCHANGED <<mRefreshPending, mLocalSyncPoints, mQueueItems>>]_vars

\* C10 (amended): the same, for a call that gets to the fence poll: no
\* sideband change is pending and mRefreshPending is clear.
C10_UnsignaledAtPollWakes ==
    [][(DirectCall /\ HeadFenceUnsignaled /\ ~mSidebandStreamChanged
        /\ ~mRefreshPending) =>
           /\ result' = "falseWake"
           /\ pc' = "idle"
           /\ LatchedStateUnchanged
           /\ UNCHANGED <<mRefreshPending, mLocalSyncPoints, mQueueItems>>]_vars

\* A call was turned away at the fence poll, past a sync point it left alone.
C10_Witness ==
    /\ result = "falseWake"
    /\ HeadFenceUnsignaled
    /\ Unavailable # {}

\* ------------------------------------------------------------------ C11

\* C11: when the producer disconnects, every sync point in the ledger is
\* handed back with frameAvailable true, whatever its transactionApplied
\* flag, and the ledger is left empty in that same step, in which no latch
\* runs: the main thread stays where it is and the latched state is as it
\* was.  From then on the ledger of the layer stays empty.
C11_DisconnectReleasesAll ==
    [][/\ Disconnects =>
              LET handedBack == forceSatisfyAll(mLocalSyncPoints).released
              IN /\ mLocalSyncPoints' = <<>>
                 /\ released' = Len(mLocalSyncPoints)
                 /\ Len(handedBack) = Len(mLocalSyncPoints)
                 /\ \A i \in Indices :
                        /\ handedBack[i].frameNumber = mLocalSyncPoints[i].frameNumber
                        /\ handedBack[i].frameAvailable
                        /\ handedBack[i].transactionApplied
                               = mLocalSyncPoints[i].transactionApplied
                 /\ pc' = pc
                 /\ result' = "none"
                 /\ LatchedStateUnchanged
       /\ ~connected' => mLocalSyncPoints' = <<>>]_vars

\* The producer left in the middle of a latch, with two sync points in the
\* ledger: both were handed back and the ledger is empty.
C11_Witness ==
    /\ ~connected
    /\ mLocalSyncPoints = <<>>
    /\ released = 2
    /\ pc = "prune"

\* ------------------------------------------------------------------ C12

\* C12: whatever the present time and whichever requesters are still there,
\* notifyAvailableFrames keeps every entry with its frame number and its
\* transactionApplied flag, never clears frameAvailable, and sets it on exactly
\* the entries up to the head frame when fenceHasSignaled() holds and the
\* present time is current, on none otherwise; it flags the requesters of
\* exactly those of these entries whose back-reference resolves.  A step that
\* flags a requester is such a call.
C12_NotifyMarksUpToHead ==
    /\ [](pc = "idle" =>
            LET upToHead == UpToHead
                marked == [i \in Indices |->
                              IF i \in upToHead
                              THEN [mLocalSyncPoints[i] EXCEPT !.frameAvailable = TRUE]
                              ELSE mLocalSyncPoints[i]]
            IN \A presentTimeIsCurrent \in BOOLEAN :
                   LET notifies == fenceHasSignaled /\ presentTimeIsCurrent
                       points == notifyFrames(mLocalSyncPoints, getHeadFrameNumber,
                                              fenceHasSignaled, presentTimeIsCurrent)
                   IN /\ points = IF notifies THEN marked ELSE mLocalSyncPoints
                      /\ \A resolves \in SUBSET Indices :
                             flaggedRequesters(mLocalSyncPoints, getHeadFrameNumber,
                                               fenceHasSignaled, presentTimeIsCurrent,
                                               resolves)
                                 = IF notifies THEN upToHead \cap resolves ELSE {})
    /\ [][flagged' # {} =>
              /\ pc = "idle"
              /\ fenceHasSignaled
              /\ flagged' \subseteq UpToHead
              /\ mLocalSyncPoints' =
                     [i \in Indices |->
                         IF i \in UpToHead
                         THEN [mLocalSyncPoints[i] EXCEPT !.frameAvailable = TRUE]
                         ELSE mLocalSyncPoints[i]]
              /\ pc' = "idle"
              /\ LatchedStateUnchanged]_vars

\* notifyAvailableFrames found two sync points up to the head frame, made
\* both available and flagged their requesters.
C12_Witness ==
    /\ flagged = {1, 2}
    /\ UpToHead = {1, 2}
    /\ \A i \in Indices : mLocalSyncPoints[i].frameAvailable
    /\ hasFrameUpdate

\* ------------------------------------------------------------------ C13

\* The opacity of the layer, isOpaque(s), before and after a step.
Opacity == isOpaque(eLayerOpaque, mSidebandStream, mBufferInfo)
OpacityAfter == isOpaque(eLayerOpaque', mSidebandStream', mBufferInfo')

\* C13: a latchBuffer call that acquires a buffer leaves true in
\* recomputeVisibleRegions whenever the layer had no buffer before, or the
\* crop, the transform, the scaling mode, the opacity or the width or height
\* of the buffer is not what it was before the call; the call then returns
\* true with recomputeVisibleRegions as it left it.
C13_GeometryChangeReported ==
    [][/\ (pc = "idle" /\ pc' = "prune") =>
              ((\/ mBufferInfo.mBuffer = 0
                \/ mBufferInfo'.mCrop # mBufferInfo.mCrop
                \/ mBufferInfo'.mTransform # mBufferInfo.mTransform
                \/ mBufferInfo'.mScaleMode # mBufferInfo.mScaleMode
                \/ OpacityAfter # Opacity
                \/ mBufferInfo'.width # mBufferInfo.width
                \/ mBufferInfo'.height # mBufferInfo.height)
               => recomputeVisibleRegions')
       /\ (pc = "prune" /\ pc' = "idle") =>
              /\ result' = "true"
              /\ recomputeVisibleRegions' = recomputeVisibleRegions]_vars

\* Frame 2 came rotated by 90 degrees with the crop of frame 1, and its
\* latch returned true with recomputeVisibleRegions set.
C13_Witness ==
    /\ result = "true"
    /\ recomputeVisibleRegions
    /\ mCurrentFrameNumber = 2
    /\ mBufferInfo.mTransform = {"ROT_90"}
    /\ mBufferInfo.mCrop = frames[1].mCrop
    /\ lastLatched = 2

\* ------------------------------------------------------------------ C14

\* The buffer info and the frame number are those of one frame: the buffer
\* is the one of that frame and the geometry is what the producer drew it
\* with; with no frame yet, there is no buffer and nothing is set.
SameFrame(info, frameNumber) ==
    /\ info.mBuffer = frameNumber
    /\ geometryOf(info) = IF frameNumber = 0 THEN geometryOf(NoBufferInfo)
                          ELSE frames[frameNumber]

C15_SidebandLeavesBufferPath ==
    [][(DirectCall /\ mSidebandStreamChanged) =>
           /\ result' = "true"
           /\ pc' = "idle"
           /\ LatchedStateUnchanged
           /\ UNCHANGED <<mRefreshPending, mLocalSyncPoints, mQueueItems>>]_vars

\* A call returned true with nothing latched by it: a signaled frame is
\* still queued, no refresh is pending and a sync point up to that frame is
\* still unavailable.
C15_Witness ==
    /\ result = "true"
    /\ recomputeVisibleRegions
    /\ ~mRefreshPending
    /\ hasFrameUpdate
    /\ ~HeadFenceUnsignaled
    /\ Unavailable # {}

\* ------------------------------------------------------------------ C16

\* The entries of a ledger with their frame numbers and frameAvailable
\* flags: what the loops over the ledger and registration insert, remove
\* and set.
LedgerShape(points) ==
    [i \in 1..Len(points) |-> [frameNumber |-> points[i].frameNumber,
                               frameAvailable |-> points[i].frameAvailable]]

\* The main thread is inside a loop over the ledger.
MainInLoop == pc \in {"scan", "notify", "pruneLoop"}

\* C16 as stated: the scan of a latch attempt, notifyAvailableFrames, the
\* prune and registration run under the ledger lock, and every flag decision
\* is based on values read while the lock is held.
C16_DecisionsReadUnderLock ==
    /\ MainInLoop => mLocalSyncPointMutex = "main"
    /\ registering # 0 => mLocalSyncPointMutex = "transaction"
    /\ pc \in {"scan", "notify"} => local.locked

\* C16: the main thread is inside a loop over the ledger only while it holds
\* the ledger lock and a transaction thread registers only while it holds
\* it; the ledger changes only in a step of the thread that holds the lock,
\* or, with the lock free and the main thread outside its loops, in the one
\* step in which a transaction sets its transactionApplied flag; so no
\* thread changes the ledger in the middle of another's scan.
C16_LedgerUnderLock ==
    [][/\ MainInLoop => mLocalSyncPointMutex = "main"
       /\ registering # 0 => mLocalSyncPointMutex = "transaction"
       /\ mLocalSyncPoints' # mLocalSyncPoints =>
              \/ /\ mLocalSyncPointMutex = "main"
                 /\ MainInLoop
                 /\ registering' = registering
              \/ /\ mLocalSyncPointMutex = "transaction"
                 /\ registering # 0
                 /\ registering' = 0
                 /\ UNCHANGED <<pc, local>>
              \/ /\ mLocalSyncPointMutex = "none"
                 /\ ~MainInLoop
                 /\ registering = 0
                 /\ LedgerShape(mLocalSyncPoints') = LedgerShape(mLocalSyncPoints)
                 /\ UNCHANGED <<pc, local, mLocalSyncPointMutex, registering>>]_vars

\* The main thread is past the first of two entries in the scan of a latch
\* attempt, and no transaction thread is registering.
C16_Witness ==
    /\ pc = "scan"
    /\ mLocalSyncPointMutex = "main"
    /\ local.point = 2
    /\ local.matchingFramesFound
    /\ Len(mLocalSyncPoints) = 2
    /\ connected
    /\ registering = 0

\* ------------------------------------------------------------------ C17

\* A quotient that is a number: not an infinity, not NaN.
Finite(q) == q.den # 0

\* The layer has a buffer whose crop or whose size as getBufferSize gives it
\* has no area or is inverted.
MalformedGeometry ==
    /\ mBufferInfo.mBuffer # 0
    /\ isEmpty(mBufferInfo.mCrop) \/ isEmpty(getBufferSize(drawing, mBufferInfo))

\* C17 as stated: with malformed geometry the projection a composition
\* returns with the buffer is the one returned before, and no projection
\* holds a scale or a translation got by dividing by zero.
C17_MalformedKeepsPrevious ==
    [][/\ (MalformedGeometry /\ layerSettings'.buffer # 0) =>
              layerSettings' = layerSettings
       /\ Finite(layerSettings'.scaleWidth) /\ Finite(layerSettings'.scaleHeight)
       /\ Finite(layerSettings'.translateX) /\ Finite(layerSettings'.translateY)]_vars

\* A layer that scales its buffers to an active size of no width was
\* composed: the scale of the width is an infinity.
C17_Witness ==
    /\ MalformedGeometry
    /\ getWidth(getBufferSize(drawing, mBufferInfo)) = 0
    /\ layerSettings.buffer # 0
    /\ layerSettings.scaleWidth = Quotient(1, 0)
    /\ Finite(layerSettings.scaleHeight)

\* ------------------------------------------------------------------ C18

\* The source crop and the display frame of the layer's output layer differ
\* in width or in height.
SizesDiffer ==
    \/ getWidth(drawing.sourceCrop) # getWidth(drawing.displayFrame)
    \/ getHeight(drawing.sourceCrop) # getHeight(drawing.displayFrame)

\* C18 as stated: the filtering flag returned with a projection is true if
\* and only if the source crop and the destination differ in width or height.
C18_FlagIffSizesDiffer ==
    layerSettings.buffer # 0 => (layerSettings.useTextureFiltering <=> SizesDiffer)

\* C18: needsFiltering is true exactly for a display that has an output
\* layer of this layer whose source crop and display frame differ in width
\* or height, so mNeedsFiltering is true only when they differ; the flag a
\* composition returns with the buffer is true exactly when the target needs
\* filtering, mNeedsFiltering is set or the effective scaling mode is not
\* FREEZE.
C18_FilteringFlag ==
    [][/\ \A displayDevice \in Displays :
              needsFiltering(drawing, displayDevice) <=> (displayDevice = 1 /\ SizesDiffer)
       /\ mNeedsFiltering' => SizesDiffer
       /\ \A targetSettings \in TargetSettings :
              LET settings == clientComposition(drawing, mBufferInfo, mNeedsFiltering,
                                                targetSettings)
              IN settings.buffer # 0 =>
                     (settings.useTextureFiltering <=>
                          \/ targetSettings.needsFiltering
                          \/ mNeedsFiltering
                          \/ getEffectiveScalingMode(drawing, mBufferInfo) # "FREEZE")
       /\ (layerSettings' # layerSettings /\ layerSettings'.buffer # 0
               /\ (mNeedsFiltering
                      \/ getEffectiveScalingMode(drawing, mBufferInfo) # "FREEZE")) =>
              layerSettings'.useTextureFiltering]_vars

\* A composition returned the buffer of a layer that does not scale with
\* the flag set, after the sizes were found to differ on display 1.
C18_Witness ==
    /\ layerSettings.buffer # 0
    /\ layerSettings.useTextureFiltering
    /\ mNeedsFiltering
    /\ SizesDiffer
    /\ getEffectiveScalingMode(drawing, mBufferInfo) = "FREEZE"

\* ------------------------------------------------------------------ C19

\* C19 as stated: a latchBuffer call made when the producer has queued
\* nothing returns false without the wake and changes no latched state, no
\* pending flag and no sync point, also with auto-refresh on or a sideband
\* change flagged.
C19_NothingQueuedIsNoOp ==
    [][(DirectCall /\ ~hasFrameUpdate) =>
           /\ result' = "false"
           /\ pc' = "idle"
           /\ LatchedStateUnchanged
           /\ UNCHANGED <<mRefreshPending, mSidebandStreamChanged, mLocalSyncPoints>>]_vars

\* C19: a latchBuffer call made when the producer has queued nothing,
\* auto-refresh is off and no sideband change is flagged returns false in
\* that step without the wake, reports no visible-region change, and leaves
\* the latched state, the sideband stream, mRefreshPending, the ledger and the
\* producer's state as they were.
C19_NothingReadyIsNoOp ==
    [][(DirectCall /\ ~hasFrameUpdate /\ ~mAutoRefresh /\ ~mSidebandStreamChanged) =>
           /\ result' = "false"
           /\ pc' = "idle"
           /\ ~recomputeVisibleRegions'
           /\ UNCHANGED <<bufferVars, producerVars, mSidebandStreamChanged,
                          mRefreshPending, mLocalSyncPoints, otherVars>>]_vars

\* A call returned false with nothing ready, on a layer that has latched a
\* frame, has no refresh pending and has a sync point up to its current
\* frame that is still unavailable.
C19_Witness ==
    /\ result = "false"
    /\ ~hasFrameUpdate /\ ~mAutoRefresh /\ ~mSidebandStreamChanged
    /\ mCurrentFrameNumber > 0
    /\ ~mRefreshPending
    /\ Unavailable # {}

\* ------------------------------------------------------------------ C20

\* The positions of the ledger whose entries are available, applied and for
\* a frame up to frameNumber.
SatisfiedUpTo(frameNumber) ==
    {i \in Indices : /\ mLocalSyncPoints[i].frameAvailable
                     /\ mLocalSyncPoints[i].transactionApplied
                     /\ mLocalSyncPoints[i].frameNumber <= frameNumber}

\* C20: when a latch that acquired frame F returns, the ledger holds no
\* entry that is available, applied and for a frame up to F, and it is the
\* ledger of before without exactly those entries: every entry for a later
\* frame or with a flag unset is still there, in the order of before.
C20_PruneDropsExactlySatisfied ==
    [][PruneReturns =>
           /\ Removes(SatisfiedUpTo(mCurrentFrameNumber'))
           /\ \A j \in 1..Len(mLocalSyncPoints') :
                  ~(/\ mLocalSyncPoints'[j].frameAvailable
                    /\ mLocalSyncPoints'[j].transactionApplied
                    /\ mLocalSyncPoints'[j].frameNumber <= mCurrentFrameNumber')]_vars

\* A latch has acquired frame 1 and is about to prune and return: the
\* ledger holds a sync point for frame 1 that is available and applied, and
\* behind it one for frame 2.
C20_Witness ==
    /\ pc = "prune"
    /\ mCurrentFrameNumber = 1
    /\ Len(mLocalSyncPoints) = 2
    /\ SatisfiedUpTo(mCurrentFrameNumber) = {1}
    /\ mLocalSyncPoints[1].frameNumber = mCurrentFrameNumber
    /\ mLocalSyncPoints[2].frameNumber > mCurrentFrameNumber

\* ------------------------------------------------------------------ C21

\* The ledger with frameAvailable set on every entry up to the head frame:
\* what notifyAvailableFrames leaves when it notifies.
MarkedUpToHead ==
    [i \in Indices |->
        IF i \in UpToHead THEN [mLocalSyncPoints[i] EXCEPT !.frameAvailable = TRUE]
        ELSE mLocalSyncPoints[i]]

\* A step of notifyAvailableFrames that notifies.
Notifies ==
    /\ pc = "idle" /\ pc' = "idle"
    /\ result' = "none"
    /\ fenceHasSignaled
    /\ mLocalSyncPoints' = MarkedUpToHead

\* A latchBuffer call, made directly or by latchAndReleaseBuffer, that gets
\* to the scan and fails at the first unavailable sync point up to the head
\* frame, which it makes available, and latches nothing.
FailsAtFirstUnavailable ==
    /\ pc = "idle" /\ pc' = "idle"
    /\ hasReadyFrame /\ ~mSidebandStreamChanged /\ ~HeadFenceUnsignaled
    /\ result' # "true"
    /\ LatchedStateUnchanged
    /\ mLocalSyncPoints' =
           [mLocalSyncPoints EXCEPT ![FirstUnavailable].frameAvailable = TRUE]

\* C21 as stated: a latch attempt makes at most one sync point available,
\* the first unavailable one up to the head frame, and, notifyAvailableFrames
\* apart, nothing else lowers the number of unavailable sync points up to the
\* head frame, so that k of them take k failed attempts before latchBuffer
\* returns true.
C21_OnlyFailedAttemptsLower ==
    [][/\ (Cardinality(Unavailable') < Cardinality(Unavailable) /\ ~Notifies) =>
              FailsAtFirstUnavailable
       /\ (Unavailable # {} /\ DirectCall) => result' # "true"]_vars

\* C21: a latch attempt makes at most one sync point available, the first
\* unavailable one up to the head frame.  Apart from notifyAvailableFrames
\* and a producer disconnect, only such a failed attempt lowers the number of
\* unavailable sync points up to the head frame, by one, and no call
\* acquires a buffer while there is one: k of them take k failed attempts
\* before a buffer is latched.  (A call that leaves by the sideband path
\* returns true without looking at the ledger.)
C21_OneSyncPointPerAttempt ==
    [][/\ ((mLocalSyncPoints' # mLocalSyncPoints \/ mQueueItems' # mQueueItems)
               /\ Cardinality(Unavailable') < Cardinality(Unavailable)
               /\ ~Notifies /\ ~Disconnects) =>
              /\ FailsAtFirstUnavailable
              /\ Cardinality(Unavailable') = Cardinality(Unavailable) - 1
       /\ DirectCall =>
              Cardinality({i \in Indices : mLocalSyncPoints'[i].frameAvailable
                                           /\ ~mLocalSyncPoints[i].frameAvailable}) <= 1
       /\ LatchAcquires => Unavailable = {}
       /\ (DirectCall /\ result' = "true" /\ Unavailable # {}) =>
              mSidebandStreamChanged]_vars

\* A call went past a sync point that was available and applied and failed
\* at the one behind it, which it made available.
C21_Witness ==
    /\ result = "false"
    /\ ReachesSyncPointCheck
    /\ UpToHead = {1, 2}
    /\ Unavailable = {}
    /\ mLocalSyncPoints[1].transactionApplied
    /\ ~mLocalSyncPoints[2].transactionApplied

\* ------------------------------------------------------------------ C22

\* C22: a step takes a sync point out of the ledger only inside the loop at
\* the end of a latch, under the lock, and only the entry the loop is at,
\* when it is available, applied and for a frame up to the one latched; so
\* an entry registered after the scan of the latch, with a flag unset, is
\* kept whatever its frame number.  An entry becomes available only where
\* the scan of a latch attempt or notifyAvailableFrames stands on it, and the
\* scan of an attempt that comes to an unavailable entry up to its head
\* frame makes it available.
C22_UnsatisfiedSurvivesPrune ==
    [][/\ Len(mLocalSyncPoints') < Len(mLocalSyncPoints) =>
              /\ pc = "pruneLoop"
              /\ mLocalSyncPointMutex = "main"
              /\ local.point \in Indices
              /\ mLocalSyncPoints[local.point].frameAvailable
              /\ mLocalSyncPoints[local.point].transactionApplied
              /\ mLocalSyncPoints[local.point].frameNumber <= mCurrentFrameNumber
              /\ Removes({local.point})
       /\ Len(mLocalSyncPoints') = Len(mLocalSyncPoints) =>
              \A i \in Indices :
                  (mLocalSyncPoints'[i].frameAvailable
                       /\ ~mLocalSyncPoints[i].frameAvailable) =>
                      /\ pc \in {"scan", "notify"}
                      /\ i = local.point
                      /\ mLocalSyncPoints[i].frameNumber <= local.headFrameNumber
       /\ (/\ pc = "scan" /\ pc' # "scan"
           /\ local.point \in Indices
           /\ mLocalSyncPoints[local.point].frameNumber <= local.headFrameNumber
           /\ ~mLocalSyncPoints[local.point].frameAvailable) =>
              /\ mLocalSyncPoints'[local.point].frameAvailable
              /\ result' = "false"]_vars

\* The loop at the end of a latch has gone past a sync point for a frame up
\* to the one latched that is not available: it was registered after the
\* scan of this latch.
C22_Witness ==
    /\ pc = "pruneLoop"
    /\ local.point > 1
    /\ ~mLocalSyncPoints[1].frameAvailable
    /\ mLocalSyncPoints[1].frameNumber <= mCurrentFrameNumber

\* ------------------------------------------------------------------ C23
\* Frame n waits in the queue.
Pending(n) == \E i \in 1..Len(mQueueItems) : mQueueItems[i].frameNumber = n
\* The latchBuffer call that installed frame n has returned true.
LatchedTrue(n) == result = "true" /\ pc = "idle" /\ lastLatched = n /\ mCurrentFrameNumber = n

PresentsTrue == presented' = "true"
PresentsFalse == presented' = "false"
\* The frame-latency-pending flag of the layer and of its clone.
FrameLatencyNeeded == mBufferInfo.mFrameLatencyNeeded
CloneFrameLatencyNeeded == clone.mBufferInfo.mFrameLatencyNeeded
\* The step leaves the layer as it is, return values aside.
NothingChanges == UNCHANGED <<producerVars, bufferVars, configVars, compositionVars, otherVars, lockVars, ghostVars, mSidebandStreamChanged, mRefreshPending, mLocalSyncPoints, pc>>
\* The step leaves the layer itself as it is.
NothingChangesButClone == UNCHANGED <<producerVars, bufferVars, configVars, compositionVars, released, lockVars, ghostVars, mSidebandStreamChanged, mRefreshPending, mLocalSyncPoints, pc>>

\* The flag of the layer is set by the step that latches a buffer and by no
\* other, and cleared by the onPostComposition call that returns true and by
\* no other; a call that finds it clear returns false and changes nothing.
FlagFromLatchToPresent ==
    /\ LatchAcquires => FrameLatencyNeeded'
    /\ (FrameLatencyNeeded' /\ ~FrameLatencyNeeded) => LatchAcquires
    /\ (~FrameLatencyNeeded' /\ FrameLatencyNeeded) => PresentsTrue
    /\ PresentsTrue => (FrameLatencyNeeded /\ ~FrameLatencyNeeded')
    /\ PresentsFalse => (~FrameLatencyNeeded /\ NothingChanges)

\* C24 (as stated): in every layer, the clone among them, the
\* frame-latency-pending flag is true exactly from a successful buffer latch
\* of that layer until its next onPostComposition, which returns true and
\* clears the flag when it is set and returns false changing nothing when it
\* is clear; the clone latches no buffer, so its flag never rises.
C24_FlagOnlyFromOwnLatch ==
    [][FlagFromLatchToPresent /\ (CloneFrameLatencyNeeded' => CloneFrameLatencyNeeded)]_vars

\* C24 (amended): the above holds for the layer that latches its buffers;
\* the flag of a clone rises only when updateCloneBufferInfo copies the
\* buffer info of a layer whose flag is set.
C24_FlagFromLatchOrCopy ==
    [][/\ FlagFromLatchToPresent
       /\ (CloneFrameLatencyNeeded' /\ ~CloneFrameLatencyNeeded)
              => (FrameLatencyNeeded /\ clone'.mBufferInfo = mBufferInfo /\ NothingChangesButClone)]_vars

\* onPostComposition has returned true for the second frame, after it
\* returned true for the first.
C24_Witness ==
    /\ presented = "true"
    /\ mCurrentFrameNumber = 2
    /\ ~FrameLatencyNeeded
    /\ CloneFrameLatencyNeeded

\* ------------------------------------------------------------------ C25
\* Pixel formats: none, the four with an alpha channel that
\* getOpacityForFormat names, RGBX_8888 and a device format.
PixelFormats == {0, HAL_PIXEL_FORMAT_RGBA_8888, HAL_PIXEL_FORMAT_BGRA_8888, HAL_PIXEL_FORMAT_RGBA_FP16, HAL_PIXEL_FORMAT_RGBA_1010102, 2, 256}
hasAlphaChannel(format) == format \in {HAL_PIXEL_FORMAT_RGBA_8888, HAL_PIXEL_FORMAT_BGRA_8888, HAL_PIXEL_FORMAT_RGBA_FP16, HAL_PIXEL_FORMAT_RGBA_1010102}
\* The layer with this sideband stream and buffer info has nothing to show.
NoContent(sidebandStream, info) == sidebandStream = 0 /\ info.mBuffer = 0

\* What C25 says of a layer with this sideband stream and buffer info.
OpaqueAndVisibleAsContent(sidebandStream, info) ==
    /\ NoContent(sidebandStream, info) =>
           /\ \A opaque \in BOOLEAN, format \in PixelFormats : ~isOpaque(opaque, sidebandStream, [info EXCEPT !.mPixelFormat = format])
           /\ \A hiddenByPolicy \in BOOLEAN, alpha \in Alphas : ~isVisible(hiddenByPolicy, alpha, sidebandStream, info)
    /\ ~NoContent(sidebandStream, info) =>
           /\ \A opaque \in BOOLEAN, format \in PixelFormats : isOpaque(opaque, sidebandStream, [info EXCEPT !.mPixelFormat = format]) <=> (opaque \/ ~hasAlphaChannel(format))
           /\ isOpaque(eLayerOpaque, sidebandStream, info) <=> (eLayerOpaque \/ ~hasAlphaChannel(info.mPixelFormat))

\* C25: in every reachable state, a layer (or clone) with neither a latched
\* buffer nor a sideband stream is not opaque, whatever its opaque flag and
\* pixel format, and not visible, whatever its alpha and hidden policy; one
\* with a buffer or a sideband stream is opaque iff the opaque flag is set
\* or its pixel format has no alpha channel.
C25_NoContentNeitherOpaqueNorVisible ==
    /\ OpaqueAndVisibleAsContent(mSidebandStream, mBufferInfo)
    /\ OpaqueAndVisibleAsContent(clone.mSidebandStream, clone.mBufferInfo)
    /\ (lastLatched = -1 /\ pc = "idle") => NoContent(mSidebandStream, mBufferInfo)

\* The layer has been asked for a sideband stream and for a frame whose
\* fence has signaled, neither is latched yet, and the opaque flag is set.
C25_Witness ==
    /\ NoContent(mSidebandStream, mBufferInfo)
    /\ eLayerOpaque
    /\ hasFrameUpdate /\ mQueueItems[1].fenceSignaled
    /\ result = "false"


====
